---- MODULE Spec2Model ----
(***************************************************************************)
(* Driftfield: the entropy engine, the cycle layer, the field composer,    *)
(* the pattern detector and the decision scorer of                         *)
(* src/api/stripe-webhook.js, as state machines.                           *)
(*                                                                         *)
(* Numbers.  JavaScript numbers are IEEE-754 doubles.  Three encodings:    *)
(*  - integers that the code keeps exact (counts, sums of bytes, scores)   *)
(*    are TLA+ integers;                                                   *)
(*  - real-valued statistics are fixed point, in millionths (Unit), and    *)
(*    are truncated, so they carry an error of a few millionths;           *)
(*  - the polarity value, whose sign at zero decides an output, is         *)
(*    computed bit-exactly: a magnitude of W bits (2 integer bits,         *)
(*    W - 2 fraction bits) rounded to 53 significant bits, ties to even,   *)
(*    after every operation, as the hardware does.                         *)
(*                                                                         *)
(* Times.  A Date holds whole milliseconds.  Times are counted from        *)
(* knownNew, the new moon of lunarPhase, in days, milliseconds and         *)
(* millionths of a millisecond, so that the synodic period                 *)
(* 29.53058770576 d = 2551442777.777664 ms is exact.  Within a few cycles  *)
(* of knownNew the doubles of the code separate the same dates: a whole    *)
(* millisecond is on a bucket boundary or at least 0.00006 ms from it.     *)
(***************************************************************************)
EXTENDS Integers, Sequences, FiniteSets, TLC

VARIABLES
  data,        \* the byte sample drawn by sampleEntropy
  entropy,     \* the record returned by fullEntropyAnalysis, or NoResult
  birthDate,   \* the saved birth Date, or NoResult
  now,         \* the Date that new Date() returns
  field,       \* the record returned by calculateField, or NoResult
  events,      \* the logged events, oldest first
  patterns,    \* analyzePatterns(events), as the last render computed it
  optA, optB,  \* the two options of the decision form
  decResult,   \* the record returned by evaluateDecision, or NoResult
  checkin,     \* the daily check-in form: nov, wt, st, yes, noticed, shared
  daily,       \* the submitted check-in entry, or NoResult
  dayScore,    \* the record returned by scoreSurface, or NoResult
  probe,       \* the probe fired last, or NoResult
  probeHistory, \* the probes kept, oldest first
  profile,     \* the user's row of public.profiles
  probes,      \* the user's rows of public.probes: the day each was created
  today,       \* CURRENT_DATE, as a day number
  calls,       \* where each call of useProbes' fireProbe stands
  lastEvent,   \* the type of the webhook event processed last, or "none"
  ended,       \* customer.subscription.deleted was processed, and no checkout since
  scan         \* scanning, and the birth date of the doScan that the interval calls

entropyVars == <<data, entropy>>
fieldVars == <<birthDate, now, field>>
eventVars == <<events, patterns>>
decisionVars == <<optA, optB, decResult>>
surfaceVars == <<checkin, daily, dayScore>>
\* what the parts below the decision form keep
probeVars == <<probe, probeHistory>>
backendVars == <<profile, probes, today, calls, lastEvent, ended>>
scanVars == <<scan>>
restVars == <<surfaceVars, probeVars, backendVars, scanVars>>
vars == <<entropyVars, fieldVars, eventVars, decisionVars, restVars>>

\* null
NoResult == [none |-> TRUE]

\* ------------------------------------------------------------------ bounds
MinLen == 4
MaxLen == 6
\* the byte values the exhaustively enumerated samples are built from
ByteVals == {0, 102, 255}

\* --------------------------------------------------------- integer helpers
Abs(x) == IF x < 0 THEN -x ELSE x
Min(a, b) == IF a < b THEN a ELSE b
Max(a, b) == IF a > b THEN a ELSE b

\* one millionth: the unit of the fixed-point statistics
Unit == 1000 * 1000

\* floor(a / b * 10^digits) for a >= 0, 0 < b < 2^31 / 10, by long division
RECURSIVE LongDiv(_, _, _, _)
LongDiv(q, r, b, digits) ==
  IF digits = 0 THEN q
  ELSE LET d == (r * 10) \div b
       IN  LongDiv(q * 10 + d, (r * 10) % b, b, digits - 1)
RatFix(a, b) == LongDiv(a \div b, a % b, b, 6)

\* floor(sqrt(n)), by bisection on [lo, hi)
RECURSIVE SqrtRec(_, _, _)
SqrtRec(n, lo, hi) ==
  IF hi - lo <= 1 THEN lo
  ELSE LET mid == (lo + hi) \div 2
       IN  IF mid * mid <= n THEN SqrtRec(n, mid, hi) ELSE SqrtRec(n, lo, mid)
Isqrt(n) == SqrtRec(n, 0, 46341)

\* log2(x) * 2^12 for an integer x >= 1: the exponent, then twelve fraction
\* bits by repeated squaring of the mantissa (kept in units of 2^-14)
RECURSIVE Log2Exp(_)
Log2Exp(x) == IF x < 2 THEN 0 ELSE 1 + Log2Exp(x \div 2)
RECURSIVE Pow2(_)
Pow2(k) == IF k = 0 THEN 1 ELSE 2 * Pow2(k - 1)
RECURSIVE Log2Frac(_, _, _)
Log2Frac(y, k, acc) ==
  IF k = 0 THEN acc
  ELSE LET sq == (y * y) \div 16384
       IN  IF sq >= 32768 THEN Log2Frac(sq \div 2, k - 1, 2 * acc + 1)
           ELSE Log2Frac(sq, k - 1, 2 * acc)
Log2Fix(x) ==
  LET e == Log2Exp(x)
      m == IF e <= 14 THEN x * Pow2(14 - e) ELSE x \div Pow2(e - 14)
  IN  e * 4096 + Log2Frac(m, 12, 0)

\* ------------------------------------------------- bit-exact double values
W == 2 + 62
MantBits == 1 + 52
RECURSIVE Zeros(_)
Zeros(n) == IF n = 0 THEN <<>> ELSE <<0>> \o Zeros(n - 1)
ZeroBits == Zeros(W)
OneBits == <<0, 1>> \o Zeros(W - 2)

RECURSIVE AddRec(_, _, _, _)
AddRec(a, b, carry, acc) ==
  IF Len(acc) = W THEN acc
  ELSE LET t == a[W - Len(acc)] + b[W - Len(acc)] + carry
       IN  IF t >= 2 THEN AddRec(a, b, 1, <<t - 2>> \o acc)
           ELSE AddRec(a, b, 0, <<t>> \o acc)
BitsAdd(a, b) == AddRec(a, b, 0, <<>>)

RECURSIVE SubRec(_, _, _, _)
SubRec(a, b, borrow, acc) ==
  IF Len(acc) = W THEN acc
  ELSE LET t == a[W - Len(acc)] - b[W - Len(acc)] - borrow
       IN  IF t < 0 THEN SubRec(a, b, 1, <<t + 2>> \o acc)
           ELSE SubRec(a, b, 0, <<t>> \o acc)
BitsSub(a, b) == SubRec(a, b, 0, <<>>)

BitsLess(a, b) ==
  \E i \in 1..W : a[i] < b[i] /\ \A j \in 1..(i - 1) : a[j] = b[j]

\* round to nearest, ties to even, at 53 significant bits; sticky says that
\* non-zero bits lie beyond the W-th
Round53(a, sticky) ==
  IF a = ZeroBits THEN a
  ELSE LET lead == CHOOSE i \in 1..W : a[i] = 1 /\ \A j \in 1..(i - 1) : a[j] = 0
           last == lead + MantBits - 1
       IN  IF last >= W THEN a
           ELSE LET rnd  == a[last + 1]
                    low  == sticky \/ \E j \in (last + 2)..W : a[j] = 1
                    kept == SubSeq(a, 1, last) \o Zeros(W - last)
                    ulp  == Zeros(last - 1) \o <<1>> \o Zeros(W - last)
                IN  IF rnd = 1 /\ (low \/ a[last] = 1) THEN BitsAdd(kept, ulp)
                    ELSE kept

DblNaN == [nan |-> TRUE, neg |-> FALSE, mag |-> ZeroBits]
DblOne == [nan |-> FALSE, neg |-> FALSE, mag |-> OneBits]

\* the double nearest to n / d, for integers 0 <= n < 2 * d
RECURSIVE DivRec(_, _, _)
DivRec(rem, d, acc) ==
  IF Len(acc) = W THEN [q |-> acc, rem |-> rem]
  ELSE LET p == 2 * rem
       IN  IF p >= d THEN DivRec(p - d, d, acc \o <<1>>)
           ELSE DivRec(p, d, acc \o <<0>>)
DblDiv(n, d) ==
  LET r == IF n >= d THEN DivRec(n - d, d, <<0, 1>>) ELSE DivRec(n, d, <<0, 0>>)
  IN  [nan |-> FALSE, neg |-> FALSE, mag |-> Round53(r.q, r.rem # 0)]

DblNeg(x) == [x EXCEPT !.neg = ~x.neg]
DblAdd(x, y) ==
  IF x.nan \/ y.nan THEN DblNaN
  ELSE IF x.neg = y.neg
    THEN [nan |-> FALSE, neg |-> x.neg, mag |-> Round53(BitsAdd(x.mag, y.mag), FALSE)]
  ELSE IF x.mag = y.mag THEN [nan |-> FALSE, neg |-> FALSE, mag |-> ZeroBits]
  ELSE IF BitsLess(x.mag, y.mag)
    THEN [nan |-> FALSE, neg |-> y.neg, mag |-> Round53(BitsSub(y.mag, x.mag), FALSE)]
  ELSE [nan |-> FALSE, neg |-> x.neg, mag |-> Round53(BitsSub(x.mag, y.mag), FALSE)]
DblSub(x, y) == DblAdd(x, DblNeg(y))
\* x * 2 is exact: the exponent moves
DblTwice(x) == IF x.nan THEN x ELSE [x EXCEPT !.mag = Tail(x.mag) \o <<0>>]

\* the comparisons of the code: every comparison with NaN is false
DblGtZero(x) == ~x.nan /\ ~x.neg /\ x.mag # ZeroBits
DblGeZero(x) == ~x.nan /\ (~x.neg \/ x.mag = ZeroBits)
DblIsZero(x) == ~x.nan /\ x.mag = ZeroBits

\* ================================================================ ENTROPY
\* freq[b]: how often byte value b occurs in data
Freq(d, b) == Cardinality({i \in 1..Len(d) : d[i] = b})

\* shannonEntropy: H = - sum p * log2(p), p = freq / n, over the byte values
\* that occur; in millionths.  p * log2(p) = (f / n) * (log2 f - log2 n).
\* the sum over the byte values lo..hi, by halves
RECURSIVE ShannonSum(_, _, _)
ShannonSum(d, lo, hi) ==
  IF lo = hi
  THEN LET f == Freq(d, lo)
       IN  IF f > 0 THEN f * (Log2Fix(Len(d)) - Log2Fix(f)) ELSE 0
  ELSE ShannonSum(d, lo, (lo + hi) \div 2) + ShannonSum(d, (lo + hi) \div 2 + 1, hi)
shannonEntropy(d) ==
  IF Len(d) = 0 THEN 0
  ELSE LET s == ShannonSum(d, 0, 255)   \* n * H * 2^12
       IN  RatFix(s, Len(d) * 4096)

\* [...data].sort((a, b) => a - b)[k], k counted from 0: the value with at
\* most k smaller elements and more than k elements not greater
SortedAt(d, k) ==
  CHOOSE v \in {d[i] : i \in 1..Len(d)} :
    /\ Cardinality({i \in 1..Len(d) : d[i] < v}) <= k
    /\ Cardinality({i \in 1..Len(d) : d[i] <= v}) > k

\* what the loop of runsTest counts.  A position i (the code's i - 1) opens
\* a run when its class (>= median or not) differs from its predecessor's;
\* runs is 1 + the number of such positions, maxRun the longest stretch
\* of positions without one.
\* the same with a byte equal to the median in the lower class
OpensRunAbove(d, median, i) == (d[i] > median) # (d[i - 1] > median)
OpensRun(d, median, i) == (d[i] >= median) # (d[i - 1] >= median)
RunCount(d, median) ==
  1 + Cardinality({i \in 2..Len(d) : OpensRun(d, median, i)})
MaxRunLen(d, median) ==
  LET unbroken(i, k) == \A j \in (i + 1)..(i + k - 1) : ~OpensRun(d, median, j)
      lens == {k \in 1..Len(d) : \E i \in 1..(Len(d) - k + 1) : unbroken(i, k)}
  IN  IF lens = {} THEN 1 ELSE CHOOSE k \in lens : \A m \in lens : m <= k

\* runsTest: expected = (n + 1) / 2, deviation = (runs - expected) / expected
\*   = (2 * runs - (n + 1)) / (n + 1); devAbs is |deviation| in millionths
runsTest(d) ==
  LET median == IF Len(d) = 0 THEN 0 ELSE SortedAt(d, Len(d) \div 2)
      runs == RunCount(d, median)
      num == 2 * runs - (Len(d) + 1)
  IN  [runs |-> runs, maxRun |-> MaxRunLen(d, median), median |-> median,
       devNeg |-> num < 0, devAbs |-> RatFix(Abs(num), Len(d) + 1),
       clusterNeg |-> num > 0, clusterAbs |-> RatFix(Abs(num), Len(d) + 1)]

\* chiSquared: expected = n / 256; chi2 = sum (freq - expected)^2 / expected
\*   = sum (256 * freq - n)^2 / (256 * n); normalized = (chi2 - 255) / 255.
\* expected = 0 (an empty sample) makes every term 0 / 0: NaN.
RECURSIVE ChiSum(_, _, _)
ChiSum(d, lo, hi) ==
  IF lo = hi
  THEN LET t == 256 * Freq(d, lo) - Len(d) IN t * t
  ELSE ChiSum(d, lo, (lo + hi) \div 2) + ChiSum(d, (lo + hi) \div 2 + 1, hi)
chiSquared(d) ==
  IF Len(d) = 0 THEN [nan |-> TRUE, chi2 |-> 0, normNeg |-> FALSE, normAbs |-> 0]
  ELSE LET s == ChiSum(d, 0, 255)         \* chi2 * 256 * n
           den == 256 * Len(d)
           num == s - 255 * den           \* (chi2 - 255) * 256 * n
       IN  [nan |-> FALSE, chi2 |-> RatFix(s, den),
            normNeg |-> num < 0, normAbs |-> RatFix(Abs(num), 255 * den)]

\* serialCorrelation: the five sums over the n = length - 1 adjacent pairs
\* over the pairs (d[i], d[i + 1]), i in lo..hi, by halves
RECURSIVE CorrSums(_, _, _)
CorrSums(d, lo, hi) ==
  IF lo > hi THEN [xy |-> 0, x |-> 0, y |-> 0, x2 |-> 0, y2 |-> 0]
  ELSE IF lo = hi
  THEN [xy |-> d[lo] * d[lo + 1], x |-> d[lo], y |-> d[lo + 1],
        x2 |-> d[lo] * d[lo], y2 |-> d[lo + 1] * d[lo + 1]]
  ELSE LET l == CorrSums(d, lo, (lo + hi) \div 2)
           r == CorrSums(d, (lo + hi) \div 2 + 1, hi)
       IN  [xy |-> l.xy + r.xy, x |-> l.x + r.x, y |-> l.y + r.y,
            x2 |-> l.x2 + r.x2, y2 |-> l.y2 + r.y2]
\* num, and the two factors under the square root of den
CorrParts(d) ==
  LET n == Len(d) - 1
      s == CorrSums(d, 1, n)
  IN  [num |-> n * s.xy - s.x * s.y,
       varX |-> n * s.x2 - s.x * s.x,
       varY |-> n * s.y2 - s.y * s.y]
\* |num / den| in millionths, the square roots taken of the factors separately
CorrAbs(p) == RatFix(Abs(p.num), Isqrt(p.varX) * Isqrt(p.varY))

\* the same without the fallback: 0 / 0 is NaN
serialCorrelationNoFallback(d) ==
  LET p == CorrParts(d)
  IN  IF p.varX = 0 \/ p.varY = 0
      THEN [nan |-> TRUE, denZero |-> TRUE, neg |-> FALSE, abs |-> 0]
      ELSE [nan |-> FALSE, denZero |-> FALSE, neg |-> p.num < 0, abs |-> CorrAbs(p)]

\* serialCorrelation: den = sqrt(varX * varY) is 0 exactly when one factor is
\* 0 (they are exact integers), and then the code returns 0
serialCorrelation(d) ==
  LET p == CorrParts(d)
  IN  IF p.varX = 0 \/ p.varY = 0
      THEN [nan |-> FALSE, denZero |-> TRUE, neg |-> FALSE, abs |-> 0]
      ELSE [nan |-> FALSE, denZero |-> FALSE, neg |-> p.num < 0, abs |-> CorrAbs(p)]

\* x * x + y * y <= 1 for x = (a << 8 | b) / 65536, y = (c << 8 | e) / 65536:
\* (256a + b)^2 + (256c + e)^2 <= 2^32, split so that no part overflows
InsideCircle(a, b, c, e) ==
  LET hi == a * a + c * c
      lo == 512 * (a * b + c * e) + b * b + e * e
      top == hi + lo \div 65536
  IN  top < 65536 \/ (top = 65536 /\ lo % 65536 = 0)

\* pi, in millionths
PiFix == 3141593

\* monteCarloDeviation: pairs = floor(n / 4); piEstimate = 4 * inside / pairs;
\* deviation = |piEstimate - pi| / pi.  No pairs: 0 / 0 is NaN.
monteCarloDeviation(d) ==
  LET pairs == Len(d) \div 4
      inside == Cardinality({i \in 0..(pairs - 1) :
                  InsideCircle(d[4 * i + 1], d[4 * i + 2], d[4 * i + 3], d[4 * i + 4])})
  IN  IF pairs = 0 THEN [nan |-> TRUE, inside |-> 0, pairs |-> 0, deviation |-> 0]
      ELSE [nan |-> FALSE, inside |-> inside, pairs |-> pairs,
            deviation |-> RatFix(Abs(4 * inside * Unit - PiFix * pairs), PiFix * pairs)]

\* the weighted term w% of a fixed-point value
Pct(x, w) == (x * w) \div 100

\* data[k] of the code (k from 0) is d[k + 1]; reading past the end of the
\* Uint8Array gives undefined, and arithmetic on undefined gives NaN
HasByte(d, k) == k + 1 <= Len(d)
NaNSeed == 0 - 1
\* data[k] as << and | read it: undefined counts as 0
IntByte(d, k) == IF HasByte(d, k) THEN d[k + 1] ELSE 0

\* the same with the bias decided by the scaled and clamped score
BiasedByScaled(d, anomaly) ==
  IF ~HasByte(d, 5) THEN DblNaN
  ELSE LET rawPolarity == DblSub(DblTwice(DblDiv(d[6], 255)), DblOne)
       IN  DblAdd(rawPolarity,
                  IF Min(3 * anomaly, Unit) > Unit \div 10
                  THEN DblDiv(1, 5) ELSE DblNeg(DblDiv(1, 10)))
\* rawPolarity + bias: (polaritySeed / 255) * 2 - 1, then + 0.2 or - 0.1
BiasedPolarity(d, anomaly) ==
  IF ~HasByte(d, 5) THEN DblNaN
  ELSE LET rawPolarity == DblSub(DblTwice(DblDiv(d[6], 255)), DblOne)
       IN  DblAdd(rawPolarity,
                  IF anomaly > Unit \div 10 THEN DblDiv(1, 5) ELSE DblNeg(DblDiv(1, 10)))

\* the labels the other way round
PolarityOfInverted(p) == IF DblGtZero(p) THEN "negative" ELSE "positive"
\* polarity > 0 ? "positive" : "negative"
PolarityOf(p) == IF DblGtZero(p) THEN "positive" ELSE "negative"

\* the scaling without the clamp
ScaleOnly(a) == a * 3
\* Math.min(anomalyScore * 3, 1)
ScaleAndClamp(a) == Min(a * 3, Unit)

\* fullEntropyAnalysis, on the sample that sampleEntropy drew
fullEntropyAnalysis(d) ==
  LET shannon == shannonEntropy(d)
      runs == runsTest(d)
      chi == chiSquared(d)
      corr == serialCorrelation(d)
      mc == monteCarloDeviation(d)
      entropyDev == Abs(8 * Unit - shannon) \div 8
      anomalyNaN == chi.nan \/ corr.nan \/ mc.nan
      anomalyScore == Pct(entropyDev, 20) + Pct(runs.devAbs, 25) + Pct(chi.normAbs, 20)
                      + Pct(corr.abs, 15) + Pct(mc.deviation, 20)
      polarity == BiasedPolarity(d, IF anomalyNaN THEN 0 ELSE anomalyScore)
  IN  [none |-> FALSE,
       shannon |-> shannon, runs |-> runs, chi |-> chi, corr |-> corr, mc |-> mc,
       entropyDev |-> entropyDev,
       anomalyRaw |-> anomalyScore,
       anomalyNaN |-> anomalyNaN,
       anomalyScore |-> ScaleAndClamp(anomalyScore),
       direction |-> [angle16 |-> IntByte(d, 0) * 256 + IntByte(d, 1),
                      magnitude16 |-> IntByte(d, 2) * 256 + IntByte(d, 3),
                      actionSeed |-> IF HasByte(d, 4) THEN d[5] % 8 ELSE NaNSeed],
       polarity |-> PolarityOf(polarity),
       polarityRaw |-> polarity]

\* ========================================================= THE CYCLE LAYER
\* x * y of two fixed-point numbers, by thousands so that no product overflows
MulUnit(x, y) ==
  LET xh == x \div 1000
      xl == x % 1000
      yh == y \div 1000
      yl == y % 1000
  IN  xh * yh + (xh * yl + xl * yh + (xl * yl) \div 1000) \div 1000

\* Math.sin(x) for 0 <= x <= pi / 2, in millionths: the Taylor series to x^11
SinFix(x) ==
  LET x2 == MulUnit(x, x)
      h5 == Unit - x2 \div 110
      h4 == Unit - MulUnit(x2, h5) \div 72
      h3 == Unit - MulUnit(x2, h4) \div 42
      h2 == Unit - MulUnit(x2, h3) \div 20
      h1 == Unit - MulUnit(x2, h2) \div 6
  IN  MulUnit(x, h1)

\* Math.sin(2 * Math.PI * n / d) for integers 0 <= n < d, in millionths: the
\* angle is folded into the first quarter turn, a / (2 * d) of half a turn
SinTurn(n, d) ==
  LET a == IF 4 * n <= d THEN 2 * n
           ELSE IF 2 * n <= d THEN d - 2 * n
           ELSE IF 4 * n <= 3 * d THEN 2 * n - d
           ELSE 2 * d - 2 * n
      s == SinFix(MulUnit(PiFix, RatFix(a, d)))
  IN  IF 2 * n <= d THEN s ELSE -s

\* ---- times.  A time is [d, ms, u]: d days, ms milliseconds of the day and u
\* millionths of a millisecond, 0 <= ms < DayMs, 0 <= u < Unit; d carries the
\* sign.  The time of a Date is its getTime() minus knownNew (line 369), a
\* whole number of milliseconds.
DayMs == 86400 * 1000
TmNorm(d, ms, u) ==
  LET m == ms + u \div Unit
  IN  [d |-> d + m \div DayMs, ms |-> m % DayMs, u |-> u % Unit]
TmAdd(a, b) == TmNorm(a.d + b.d, a.ms + b.ms, a.u + b.u)
TmSub(a, b) == TmNorm(a.d - b.d, a.ms - b.ms, a.u - b.u)
TmScale(a, k) == TmNorm(k * a.d, k * a.ms, k * a.u)
TmLess(a, b) ==
  \/ a.d < b.d
  \/ a.d = b.d /\ a.ms < b.ms
  \/ a.d = b.d /\ a.ms = b.ms /\ a.u < b.u
TmZero == TmNorm(0, 0, 0)

\* a % c of JavaScript for c > 0: the remainder takes the sign of a
RECURSIVE TmMod(_, _)
TmMod(a, c) == IF TmLess(a, c) THEN a ELSE TmMod(TmSub(a, c), c)
JsRem(a, c) ==
  IF a.d < 0 THEN TmSub(TmZero, TmMod(TmSub(TmZero, a), c)) ELSE TmMod(a, c)

\* floor(r / c * s) for 0 <= r < c and s a power of two, one bit at a time
RECURSIVE NormRec(_, _, _, _)
NormRec(r, c, s, acc) ==
  IF s = 1 THEN acc
  ELSE LET r2 == TmScale(r, 2)
       IN  IF TmLess(r2, c) THEN NormRec(r2, c, s \div 2, 2 * acc)
           ELSE NormRec(TmSub(r2, c), c, s \div 2, 2 * acc + 1)

\* the minute of the day that a clock in the zone of knownNew shows at time t
\* (knownNew is 18:14 there)
ClockOf(t) == (18 * 60 + 14 + t.ms \div 60000) % (24 * 60)
\* the Date at time t: getTime, getHours and getMinutes
DateAt(t) == [t |-> t, hours |-> ClockOf(t) \div 60, minutes |-> ClockOf(t) % 60]

\* cycle = 29.53058770576 days = 29 days and 45842777.777664 ms
Cycle == TmNorm(29, 45842777, 777664)
\* normalized is kept as a multiple of 1 / NormScale
NormScale == 256 * 256
Names == <<"New Moon", "Waxing Crescent", "First Quarter", "Waxing Gibbous",
           "Full Moon", "Waning Gibbous", "Last Quarter", "Waning Crescent">>

\* the same without the second fold: negative before knownNew
FoldOnce(daysSince) == JsRem(daysSince, Cycle)
\* ((daysSince % cycle) + cycle) % cycle
Fold(daysSince) == JsRem(TmAdd(JsRem(daysSince, Cycle), Cycle), Cycle)

\* lunarPhase.  The fold and the bucket are exact.  The energy is fixed point
\* but never rounds onto 0.5: at a whole number of milliseconds within a few
\* cycles of knownNew the phase is 0 or at least 0.00006 ms away from 0 and
\* from half a cycle, so the code's energy is exactly 0.5 at phase 0 only.
lunarPhase(date) ==
  LET daysSince == date.t
      phase == Fold(daysSince)
      normalized == NormRec(phase, Cycle, NormScale, 0)
      idx == ((normalized * 8) \div NormScale) % 8
      half == SinTurn(normalized, NormScale) \div 2
      energy == IF phase = TmZero THEN Unit \div 2
                ELSE IF TmLess(TmScale(phase, 2), Cycle)
                     THEN Unit \div 2 + Max(half, 1)
                     ELSE Unit \div 2 + Min(half, 0 - 1)
  IN  [name |-> Names[idx + 1], idx |-> idx, energy |-> energy,
       normalized |-> normalized, phase |-> phase]

\* ---- temporalGate.  Hours are counted in minutes: h * 60
Gates ==
  << [name |-> "Deep Void",           range |-> <<0, 3>>,   energy |-> 600000],
     [name |-> "Pre-Dawn Liminal",    range |-> <<3, 5>>,   energy |-> 800000],
     [name |-> "Dawn Gate",           range |-> <<5, 7>>,   energy |-> 900000],
     [name |-> "Morning Ascent",      range |-> <<7, 10>>,  energy |-> 700000],
     [name |-> "Solar Apex",          range |-> <<10, 13>>, energy |-> 500000],
     [name |-> "Afternoon Drift",     range |-> <<13, 16>>, energy |-> 400000],
     [name |-> "Twilight Gate",       range |-> <<16, 19>>, energy |-> 850000],
     [name |-> "Evening Integration", range |-> <<19, 22>>, energy |-> 600000],
     [name |-> "Night Descent",       range |-> <<22, 24>>, energy |-> 700000] >>
\* the same with the start excluded
InGateAfterStart(g, h60) == h60 > 60 * g.range[1] /\ h60 < 60 * g.range[2]
\* h >= g.range[0] && h < g.range[1]
InGate(g, h60) == h60 >= 60 * g.range[1] /\ h60 < 60 * g.range[2]
\* Array.prototype.find, given which elements satisfy the test: the index of
\* the first that does, or 0 for undefined
FindFirst(tests) ==
  LET hits == {i \in 1..Len(tests) : tests[i]}
  IN  IF hits = {} THEN 0 ELSE CHOOSE i \in hits : \A j \in hits : i <= j
temporalGate(date) ==
  LET h60 == 60 * date.hours + date.minutes
      found == FindFirst([i \in 1..Len(Gates) |-> InGate(Gates[i], h60)])
      gate == IF found = 0 THEN Gates[1] ELSE Gates[found]
  IN  [name |-> gate.name, range |-> gate.range, energy |-> gate.energy, hour |-> h60]

\* ---- biorhythm: sin(2 * pi * diff / cycle), diff in whole days
biorhythm(birth, targetDate) ==
  LET diff == TmSub(targetDate.t, birth.t).d
  IN  [physical     |-> SinTurn(diff % 23, 23),
       emotional    |-> SinTurn(diff % 28, 28),
       intellectual |-> SinTurn(diff % 33, 33),
       intuitive    |-> SinTurn(diff % 38, 38),
       diff |-> diff]

\* ---- zodiacSign.  start and end are month * 100 + day
Signs ==
  << [name |-> "Capricorn",   start |-> 101,  end |-> 119],
     [name |-> "Aquarius",    start |-> 120,  end |-> 218],
     [name |-> "Pisces",      start |-> 219,  end |-> 320],
     [name |-> "Aries",       start |-> 321,  end |-> 419],
     [name |-> "Taurus",      start |-> 420,  end |-> 520],
     [name |-> "Gemini",      start |-> 521,  end |-> 620],
     [name |-> "Cancer",      start |-> 621,  end |-> 722],
     [name |-> "Leo",         start |-> 723,  end |-> 822],
     [name |-> "Virgo",       start |-> 823,  end |-> 922],
     [name |-> "Libra",       start |-> 923,  end |-> 1022],
     [name |-> "Scorpio",     start |-> 1023, end |-> 1121],
     [name |-> "Sagittarius", start |-> 1122, end |-> 1221],
     [name |-> "Capricorn",   start |-> 1222, end |-> 1231] >>
\* the same with the end date left out of each range
zodiacSignBeforeEnd(month, day) ==
  LET d == month * 100 + day
      found == FindFirst([i \in 1..Len(Signs) |-> d >= Signs[i].start /\ d < Signs[i].end])
  IN  IF found = 0 THEN Signs[1] ELSE Signs[found]
zodiacSign(month, day) ==
  LET d == month * 100 + day
      found == FindFirst([i \in 1..Len(Signs) |-> d >= Signs[i].start /\ d <= Signs[i].end])
  IN  IF found = 0 THEN Signs[1] ELSE Signs[found]

\* ====================================================== THE FIELD COMPOSER
\* composite, bioComposite and magnitude are in hundredths of a millionth, so
\* that the weights 0.2, 0.3, 0.4 and 0.5 lose nothing
FieldUnit == 100 * Unit
\* the same with the tie given to negative
FieldPolarityStrict(composite) == IF composite > 0 THEN "positive" ELSE "negative"
\* composite >= 0 ? "positive" : "negative"
FieldPolarity(composite) == IF composite >= 0 THEN "positive" ELSE "negative"
\* Math.min(Math.abs(composite) * 2.5, 1)
FieldMagnitude(composite) == Min((Abs(composite) * 5) \div 2, FieldUnit)
\* the field composed of the biorhythm and the lunar phase, each computed once
ComposeOf(e, birth, date, bio, lunar) ==
  LET temporal == temporalGate(date)
      sign == IF birth = NoResult THEN NoResult
              ELSE zodiacSign(birth.month, birth.day)
      bioComposite == IF bio = NoResult THEN 0
                      ELSE 10 * (2 * bio.physical + 3 * bio.emotional
                                 + 2 * bio.intellectual + 3 * bio.intuitive)
      lunarMod == 40 * (lunar.energy - Unit \div 2)
      temporalMod == 30 * (temporal.energy - Unit \div 2)
      entropyMod == 50 * e.anomalyScore * (IF e.polarity = "positive" THEN 1 ELSE 0 - 1)
      composite == (3 * bioComposite) \div 10 + lunarMod + temporalMod + entropyMod
  IN  [none |-> FALSE, composite |-> composite,
       polarity |-> FieldPolarity(composite),
       magnitude |-> FieldMagnitude(composite),
       bio |-> bio, lunar |-> lunar, temporal |-> temporal, sign |-> sign,
       bioComposite |-> bioComposite]
calculateField(e, birth, date) ==
  CHOOSE f \in {ComposeOf(e, birth, date, bio, lunar) :
                  bio \in {IF birth = NoResult THEN NoResult ELSE biorhythm(birth, date)},
                  lunar \in {lunarPhase(date)}} : TRUE

\* ==================================================== THE PATTERN DETECTOR
\* A text is a sequence of tokens, each a word or the blank " ".
\* String.prototype.trim drops the blanks at both ends.
RECURSIVE TrimStart(_)
TrimStart(s) == IF s # <<>> /\ Head(s) = " " THEN TrimStart(Tail(s)) ELSE s
RECURSIVE TrimEnd(_)
TrimEnd(s) ==
  IF s # <<>> /\ s[Len(s)] = " " THEN TrimEnd(SubSeq(s, 1, Len(s) - 1)) ELSE s
Trim(s) == TrimEnd(TrimStart(s))
\* eventCat.trim() || null: the empty text is falsy, and null is kept as <<>>
NoCategory == <<>>
CategoryOf(eventCat) == Trim(eventCat)

\* A counting object {} is its own properties in insertion order, each
\* [key, num, n]: a number n, or (num = FALSE) a string that is no number.
\* Keys that Object.prototype defines are found before they are ever counted.
ProtoKeys == { <<"constructor">>, <<"toString">>, <<"toLocaleString">>, <<"valueOf">>,
               <<"hasOwnProperty">>, <<"isPrototypeOf">>, <<"propertyIsEnumerable">> }
\* counts[key] = (counts[key] || 0) + 1: an inherited function is truthy, and
\* a function + 1, like a string + 1, is a string
Bump(counts, key) ==
  LET own == {i \in 1..Len(counts) : counts[i].key = key}
  IN  IF own = {}
      THEN Append(counts, [key |-> key, num |-> key \notin ProtoKeys, n |-> 1])
      ELSE [i \in 1..Len(counts) |->
              IF i \in own /\ counts[i].num
              THEN [counts[i] EXCEPT !.n = counts[i].n + 1] ELSE counts[i]]
RECURSIVE CountKeys(_, _)
CountKeys(keys, counts) ==
  IF keys = <<>> THEN counts ELSE CountKeys(Tail(keys), Bump(counts, Head(keys)))

\* Object.entries(counts).sort((a, b) => b[1] - a[1])[0].  The sort is stable,
\* so among numbers the first largest wins.  b[1] - a[1] is NaN when either is
\* a string, and NaN compares as equal: if the numbers are not all equal the
\* comparator is inconsistent and the order is implementation-defined, so any
\* entry (the one at pick) may come first.
TopEntry(counts, pick) ==
  LET nums == {i \in 1..Len(counts) : counts[i].num}
      best == CHOOSE i \in nums :
                \A j \in nums : counts[j].n < counts[i].n
                                  \/ (counts[j].n = counts[i].n /\ i <= j)
  IN  IF counts = <<>> THEN NoResult
      ELSE IF Cardinality(nums) = Len(counts) THEN counts[best]
      ELSE IF \A i, j \in nums : counts[i].n = counts[j].n THEN counts[1]
      ELSE counts[((pick - 1) % Len(counts)) + 1]
\* topX?.[1] >= 2
AtLeastTwo(top) == top # NoResult /\ top.num /\ top.n >= 2

\* timestamps are in whole hours, from a local midnight
Bucket(timestamp) ==
  LET h == timestamp % 24
  IN  IF h < 6 THEN <<"night">> ELSE IF h < 12 THEN <<"morning">>
      ELSE IF h < 18 THEN <<"afternoon">> ELSE <<"evening">>
\* the same overwriting on >=, so that the last of the longest runs wins
RECURSIVE StreakLoopLastWins(_, _, _, _, _)
StreakLoopLastWins(evs, i, streak, maxStreak, sPolarity) ==
  IF i > Len(evs) THEN [maxStreak |-> maxStreak, sPolarity |-> sPolarity]
  ELSE IF evs[i].polarity = evs[i - 1].polarity
       THEN IF streak + 1 >= maxStreak
            THEN StreakLoopLastWins(evs, i + 1, streak + 1, streak + 1, evs[i].polarity)
            ELSE StreakLoopLastWins(evs, i + 1, streak + 1, maxStreak, sPolarity)
       ELSE StreakLoopLastWins(evs, i + 1, 1, maxStreak, sPolarity)
\* the loop of lines 494-497 from index i on (1-based)
RECURSIVE StreakLoop(_, _, _, _, _)
StreakLoop(evs, i, streak, maxStreak, sPolarity) ==
  IF i > Len(evs) THEN [maxStreak |-> maxStreak, sPolarity |-> sPolarity]
  ELSE IF evs[i].polarity = evs[i - 1].polarity
       THEN IF streak + 1 > maxStreak
            THEN StreakLoop(evs, i + 1, streak + 1, streak + 1, evs[i].polarity)
            ELSE StreakLoop(evs, i + 1, streak + 1, maxStreak, sPolarity)
       ELSE StreakLoop(evs, i + 1, 1, maxStreak, sPolarity)
RECURSIVE SumSeq(_)
SumSeq(s) == IF s = <<>> THEN 0 ELSE Head(s) + SumSeq(Tail(s))
\* the same with slice(-2)
LastTwo(s) == SubSeq(s, Max(1, Len(s) - 1), Len(s))
\* gaps.slice(-3)
LastThree(s) == SubSeq(s, Max(1, Len(s) - 2), Len(s))
\* the same with <= for <
FasterOrEqual(gaps) == 2 * Len(gaps) * SumSeq(LastThree(gaps)) <= 3 * SumSeq(gaps)
\* recent < all * 0.5, with recent = sum of the last three / 3 and
\* all = sum / gaps.length, cross-multiplied
Faster(gaps) == 2 * Len(gaps) * SumSeq(LastThree(gaps)) < 3 * SumSeq(gaps)

\* the same, one event too late
TooFewBelowTwo(evs) == Len(evs) < 2
\* events.length < 3
TooFew(evs) == Len(evs) < 3
\* the same, one event too late
IsStreakAboveThree(maxStreak) == maxStreak > 3
\* maxStreak >= 3
IsStreak(maxStreak) == maxStreak >= 3

\* a strength is a fraction <<numerator, denominator>>
analyzePatterns(evs, pick) ==
  IF TooFew(evs)
  THEN [patterns |-> <<>>, insight |-> "Log 3+ events to detect patterns."]
  ELSE
  LET n == Len(evs)
      hourCounts == CountKeys([i \in 1..n |-> Bucket(evs[i].timestamp)], <<>>)
      topTime == TopEntry(hourCounts, pick)
      temporal == IF AtLeastTwo(topTime)
                  THEN << [type |-> "temporal", label |-> <<topTime.n, n, topTime.key>>,
                           strength |-> <<topTime.n, n>>] >>
                  ELSE <<>>
      cats == SelectSeq([i \in 1..n |-> evs[i].category], LAMBDA c : c # NoCategory)
      catCounts == CountKeys(cats, <<>>)
      topCat == TopEntry(catCounts, pick)
      thematic == IF AtLeastTwo(topCat)
                  THEN << [type |-> "thematic", label |-> <<topCat.key, topCat.n>>,
                           strength |-> <<topCat.n, n>>] >>
                  ELSE <<>>
      run == StreakLoop(evs, 2, 1, 1, evs[1].polarity)
      streak == IF IsStreak(run.maxStreak)
                THEN << [type |-> "streak", label |-> <<run.maxStreak, run.sPolarity>>,
                         strength |-> <<run.maxStreak, n>>] >>
                ELSE <<>>
      gaps == [i \in 1..(n - 1) |-> evs[i + 1].timestamp - evs[i].timestamp]
      faster == n >= 4 /\ Faster(gaps)
      acceleration == IF faster
                      THEN << [type |-> "acceleration", label |-> <<"Frequency increasing">>,
                               strength |-> <<4, 5>>] >>
                      ELSE <<>>
      pushed == temporal \o thematic \o streak \o acceleration
  IN  [patterns |-> pushed,
       insight |-> IF Len(pushed) > 0 THEN "Active patterns in field."
                   ELSE "No strong patterns yet."]

\* ====================================================== THE DECISION SCORER
\* sc(o): each step adds [s, n] to the score and the notes
Step(s, note) == [s |-> s, n |-> <<note>>]
NoStep == [s |-> 0, n |-> <<>>]
Novelty(o) ==
  IF o.isNovel THEN Step(25, "Novel - expands possibility space")
  ELSE Step(5, "Familiar - predictable")
MeetsNew(o) == IF o.meetsNew THEN Step(20, "New people = new weak ties") ELSE NoStep
Crowd(o) == IF o.crowd THEN Step(10, "Crowd exposure") ELSE NoStep
Reversible(o) ==
  IF o.reversible THEN Step(15, "Reversible - low risk")
  ELSE Step(5, "Irreversible - higher stakes")
Opens(o) == IF o.opens THEN Step(20, "Opens future paths") ELSE NoStep
\* the same with the sign lost
ClosesAdds(o) == IF o.closes THEN Step(10, "Closes paths") ELSE NoStep
Closes(o) == IF o.closes THEN Step(0 - 10, "Closes paths") ELSE NoStep
Gut(o) ==
  IF o.gut = "excited" THEN Step(15, "Intuition says yes")
  ELSE IF o.gut = "anxious" THEN Step(10, "Growth-edge anxiety")
  ELSE IF o.gut = "dread" THEN Step(0 - 5, "Dread signal")
  ELSE Step(0, "No intuition signal")
sc(o) ==
  LET steps == <<Novelty(o), MeetsNew(o), Crowd(o), Reversible(o), Opens(o), Closes(o), Gut(o)>>
  IN  [score |-> steps[1].s + steps[2].s + steps[3].s + steps[4].s
                   + steps[5].s + steps[6].s + steps[7].s,
       notes |-> steps[1].n \o steps[2].n \o steps[3].n \o steps[4].n
                   \o steps[5].n \o steps[6].n \o steps[7].n]
\* the same with a margin of 10 still called near-equal
VerdictUpToTen(d) ==
  IF Abs(d) <= 10 THEN [option |-> "near-equal", by |-> 0]
  ELSE IF d > 0 THEN [option |-> "A", by |-> d]
  ELSE [option |-> "B", by |-> Abs(d)]
\* the verdict: which option it names, and the margin its text carries
Verdict(d) ==
  IF Abs(d) < 10 THEN [option |-> "near-equal", by |-> 0]
  ELSE IF d > 0 THEN [option |-> "A", by |-> d]
  ELSE [option |-> "B", by |-> Abs(d)]
evaluateDecision(a, b) ==
  LET ra == sc(a)
      rb == sc(b)
      d == ra.score - rb.score
  IN  [none |-> FALSE, a |-> ra, b |-> rb, diff |-> d, verdict |-> Verdict(d)]

\* ------------------------------------------------------ the chance surface
\* the bands and flags of scoreSurface, in the order the code tests them
\* (the dash of the "Routine" factor is written -)
SurfaceSteps(entry) ==
  << IF entry.novelty >= 3 THEN Step(30, "High novelty exposure")
     ELSE IF entry.novelty >= 2 THEN Step(20, "Moderate novelty")
     ELSE IF entry.novelty >= 1 THEN Step(10, "Some novelty")
     ELSE Step(0, "Routine - low chance surface"),
     IF entry.weakTies >= 2 THEN Step(25, "Multiple weak-tie interactions")
     ELSE IF entry.weakTies >= 1 THEN Step(15, "Weak-tie contact")
     ELSE NoStep,
     IF entry.strongTies >= 1 THEN Step(5, "Strong-tie contact") ELSE NoStep,
     IF entry.saidYes THEN Step(20, "Said yes to the unexpected") ELSE NoStep,
     IF entry.noticed THEN Step(15, "Peripheral attention active") ELSE NoStep,
     IF entry.shared THEN Step(10, "Shared publicly") ELSE NoStep >>
\* the same without Math.min
scoreSurfaceNoMin(entry) ==
  LET steps == SurfaceSteps(entry)
  IN  [score |-> steps[1].s + steps[2].s + steps[3].s + steps[4].s
                   + steps[5].s + steps[6].s,
       factors |-> steps[1].n \o steps[2].n \o steps[3].n \o steps[4].n
                   \o steps[5].n \o steps[6].n]
scoreSurface(entry) ==
  LET steps == SurfaceSteps(entry)
  IN  [score |-> Min(steps[1].s + steps[2].s + steps[3].s + steps[4].s
                       + steps[5].s + steps[6].s, 100),
       factors |-> steps[1].n \o steps[2].n \o steps[3].n \o steps[4].n
                   \o steps[5].n \o steps[6].n]
\* toDateString: the local calendar day, counted from the day of time zero
toDateString(date) == TmAdd(date.t, TmNorm(0, (18 * 60 + 14) * 60000, 0)).d

\* ------------------------------------------------------------- the probes
\* id and label of the PROBE_ACTIONS
PROBE_ACTIONS ==
  << [id |-> 0, label |-> "Seek Novelty"], [id |-> 1, label |-> "Talk to a Stranger"],
     [id |-> 2, label |-> "Follow the Thread"], [id |-> 3, label |-> "Share Something"],
     [id |-> 4, label |-> "Break a Pattern"], [id |-> 5, label |-> "Wait & Receive"],
     [id |-> 6, label |-> "Revisit Old Ground"], [id |-> 7, label |-> "Say Yes"] >>
\* the same with Math.round for Math.floor
SectorOfNearest(angle16) == (2 * 2 * 360 * angle16 + 45 * 65536) \div (2 * 45 * 65536)
\* Math.floor(bearing / 22.5) for bearing = angle16 / 65536 * 360: both
\* divisions are exact in a double, so this is floor(2 * 360 * angle16 / (45 * 65536))
SectorOf(angle16) == (2 * 360 * angle16) \div (45 * 65536)
\* The angle is angle16 / 65536 * 360, exact in a double.  bearing is the
\* text of toFixed(1), kept as its number of tenths, the nearest to the angle
\* and the larger of two equally near; bearing / 22.5 is angle16 / 4096.
\* entropyDetail, five texts for display, is left out.  date is Date.now().
generateProbe(intention, e, f, date) ==
  LET compass == <<"N", "NNE", "NE", "ENE", "E", "ESE", "SE", "SSE",
                   "S", "SSW", "SW", "WSW", "W", "WNW", "NW", "NNW">>
      strength == e.anomalyScore
  IN  [intention |-> intention,
       action |-> PROBE_ACTIONS[e.direction.actionSeed + 1],
       bearing |-> (900 * e.direction.angle16 + 8192) \div 16384,
       compassDir |-> compass[(SectorOf(e.direction.angle16) % 16) + 1],
       strength |-> strength,
       confidence |-> IF ~e.anomalyNaN /\ strength > 3 * (Unit \div 10) THEN "Strong signal"
                      ELSE IF ~e.anomalyNaN /\ strength > 15 * (Unit \div 100)
                        THEN "Moderate signal"
                      ELSE "Weak signal",
       polarity |-> e.polarity,
       polarityRaw |-> e.polarityRaw,
       fieldMagnitude |-> f.magnitude,
       timestamp |-> date.t]
\* prev.slice(-KeepProbes)
KeepProbes == 29
\* the same keeping one probe more
KeepOneMore(prev, k) == SubSeq(prev, Max(1, Len(prev) - k), Len(prev))
KeepLast(prev, k) == SubSeq(prev, Max(1, Len(prev) - k + 1), Len(prev))

\* ============================================================= THE BACKEND
\* One user, signed in, and that user's rows.  NULL is NullDate for a date and
\* "null" for a text; the columns left out are never read by the functions
\* below (the Stripe customer id and the expiry date among them).
NullDate == 0 - 1
\* the row handle_new_user inserts, with the defaults of the table
NewProfile(day) ==
  [subscription_tier |-> "free", subscription_status |-> "inactive",
   stripe_subscription_id |-> "null", theme |-> "dark",
   probes_fired_today |-> 0, probes_last_reset |-> day, total_probes_fired |-> 0,
   streak_current |-> 0, streak_longest |-> 0, streak_last_date |-> NullDate]
\* the CHECK constraints of the two subscription columns
RowValid(p) ==
  /\ p.subscription_tier \in {"free", "premium", "lifetime"}
  /\ p.subscription_status \in {"inactive", "active", "past_due", "cancelled"}
\* UPDATE ... SET updates: the columns of updates take their new values
SetColumns(p, updates) ==
  [col \in DOMAIN p |-> IF col \in DOMAIN updates THEN updates[col] ELSE p[col]]

\* statusMap[status] || 'inactive'
statusMap(status) ==
  CASE status \in {"active", "trialing"} -> "active"
    [] status = "past_due" -> "past_due"
    [] status \in {"unpaid", "canceled"} -> "cancelled"
    [] OTHER -> "inactive"
\* the updates the webhook handler passes to updateSubscription for an event;
\* none for an event without supabase_user_id in its metadata
WebhookUpdates(event) ==
  IF ~event.user THEN <<>>
  ELSE CASE event.type = "checkout.session.completed" ->
              [subscription_tier |-> "premium", subscription_status |-> "active",
               stripe_subscription_id |-> "sub"]
         [] event.type = "customer.subscription.updated" ->
              [subscription_status |-> statusMap(event.status),
               subscription_tier |-> IF event.status = "canceled" THEN "free" ELSE "premium"]
         [] event.type = "customer.subscription.deleted" ->
              [subscription_tier |-> "free", subscription_status |-> "cancelled",
               stripe_subscription_id |-> "null"]
         [] event.type = "invoice.payment_failed" -> [subscription_status |-> "past_due"]
         [] event.type = "invoice.payment_succeeded" ->
              IF event.reason = "subscription_cycle"
              THEN [subscription_status |-> "active"] ELSE <<>>

\* the same counting every earlier day as the day before
StreakRowNoReset(p, day) ==
  LET current == IF p.streak_last_date < day /\ p.streak_last_date # NullDate
                 THEN p.streak_current + 1 ELSE 1
  IN  IF p.streak_last_date = day THEN p
      ELSE [p EXCEPT !.streak_current = current,
                     !.streak_longest = Max(@, current),
                     !.streak_last_date = day]
\* the row that update_streak leaves on CURRENT_DATE = day; a NULL
\* streak_last_date equals no date
StreakRow(p, day) ==
  LET current == IF p.streak_last_date = day - 1
                 THEN p.streak_current + 1 ELSE 1
  IN  IF p.streak_last_date = day THEN p
      ELSE [p EXCEPT !.streak_current = current,
                     !.streak_longest = Max(@, current),
                     !.streak_last_date = day]
\* subscription_tier = 'premium' AND subscription_status = 'active'
IsPremium(p) == p.subscription_tier = "premium" /\ p.subscription_status = "active"
\* v_limit of check_probe_limit
DailyLimit(p) == IF IsPremium(p) THEN 999 ELSE 1
\* get_events_gated: the days of history returned, 0 for all of it
EventHistoryDays(p) == IF IsPremium(p) THEN 0 ELSE 7

\* ------------------------------------------------------------- the samples
\* every sample of MinLen..MaxLen bytes over ByteVals
EnumSamples == UNION {[1..n -> ByteVals] : n \in MinLen..MaxLen}
\* every sample of MinLen..MaxLen equal bytes
ConstSamples == {[i \in 1..n |-> b] : n \in MinLen..MaxLen, b \in 0..255}
\* a well-mixed sample of LongLen bytes, whose statistics are close to those
\* of random bytes (anomaly about 0.04 before scaling)
LongLen == 128
MixedSample == [i \in 1..LongLen |-> (((23 * i * i * i + 30 * i) % 65537) \div 5) % 256]
\* every polarity seed (the byte at index 5), in a short sample, whose anomaly
\* is above 0.1, and in the mixed sample, whose anomaly is below it
ShortBase == <<0, 102, 255, 0, 102, 0>>
SeedSamples == {[ShortBase EXCEPT ![6] = s] : s \in 0..255}
                 \cup {[MixedSample EXCEPT ![6] = s] : s \in 0..255}
Samples == EnumSamples \cup ConstSamples \cup SeedSamples
\* every sample of at most MinLen bytes over ByteVals, the empty one included
ShortSamples == UNION {[1..n -> ByteVals] : n \in 0..MinLen}

\* ---------------------------------------------------- the field's inputs
MaxCycles == 2
\* a / 8
TmEighth(a) ==
  LET r == (a.d % 8) * DayMs + a.ms
  IN  TmNorm(a.d \div 8, r \div 8, ((r % 8) * Unit + a.u) \div 8)
\* the whole millisecond at t, and the ones around it
Around(t) == {DateAt(TmNorm(t.d, t.ms + k, 0)) : k \in (0 - 1)..2}
\* every minute of the day after knownNew
ClockDates == {DateAt(TmNorm(0, 60000 * m, 0)) : m \in 0..(24 * 60 - 1)}
\* the milliseconds around every bucket boundary, MaxCycles cycles either side
\* of knownNew
BoundaryDates ==
  UNION {Around(TmEighth(TmScale(Cycle, m))) : m \in (0 - 8 * MaxCycles)..(8 * MaxCycles)}
\* knownNew itself (lunar energy exactly 0.5) read on a clock in the Solar
\* Apex (gate energy 0.5): the premise of the tie example.  A clock in the zone
\* of knownNew shows 18:14 at that instant.
TieDate == [t |-> TmZero, hours |-> 12, minutes |-> 0]
FieldDates ==
  {TieDate, DateAt(TmZero), DateAt(TmNorm(7, 33034170, 0)), DateAt(TmNorm(22, 12808607, 0)),
   DateAt(TmNorm(0 - 100, 12345678, 0))}
\* births: 1990-03-21 12:00, 2000-01-06 12:00, 2000-02-19 12:00 and
\* 1985-12-22 08:30, as times from knownNew
Births ==
  { [t |-> TmNorm(0 - 3579, 63960000, 0), hours |-> 12, minutes |-> 0, month |-> 3, day |-> 21],
    [t |-> TmNorm(0 - 1, 63960000, 0), hours |-> 12, minutes |-> 0, month |-> 1, day |-> 6],
    [t |-> TmNorm(43, 63960000, 0), hours |-> 12, minutes |-> 0, month |-> 2, day |-> 19],
    [t |-> TmNorm(0 - 5129, 51360000, 0), hours |-> 8, minutes |-> 30, month |-> 12, day |-> 22] }
\* a birth at 12:00 on every day of the year 2000; January 6 is the day of
\* knownNew
YearBirths ==
  LET monthDays == <<31, 29, 31, 30, 31, 30, 31, 31, 30, 31, 30, 31>>
      before == <<0, 31, 60, 91, 121, 152, 182, 213, 244, 274, 305, 335>>
  IN  UNION { { [t |-> TmNorm(before[month] + day - 7, 63960000, 0),
                 hours |-> 12, minutes |-> 0, month |-> month, day |-> day]
                : day \in 1..monthDays[month] } : month \in 1..12 }
\* an entropy result, as far as calculateField reads it
EntropyOf(anomalyScore, polarity) ==
  [none |-> FALSE, anomalyScore |-> anomalyScore, polarity |-> polarity]
Quiet == EntropyOf(0, "positive")
FieldEntropies ==
  {EntropyOf(a, p) : a \in {0, 120000, 500000, Unit}, p \in {"positive", "negative"}}

\* ------------------------------------------------------- the event inputs
MaxEvents == 6
Polarities == {"positive", "negative", "neutral"}
EventCats == {<<>>, <<" ">>, <<"work">>, <<" ", "work", " ">>, <<"home">>, <<"constructor">>}
EventTexts == {<<"saw", " ", "a", " ", "fox">>, <<" ">>}

\* ----------------------------------------------------- the decision inputs
Guts == {"excited", "anxious", "dread", "neutral"}
Options ==
  [label : {""}, isNovel : BOOLEAN, meetsNew : BOOLEAN, crowd : BOOLEAN,
   reversible : BOOLEAN, opens : BOOLEAN, closes : BOOLEAN, gut : Guts]
\* useState of optA and optB
DefaultOption ==
  [label |-> "", isNovel |-> FALSE, meetsNew |-> FALSE, crowd |-> FALSE,
   reversible |-> TRUE, opens |-> FALSE, closes |-> FALSE, gut |-> "neutral"]
ExampleA ==
  [label |-> "", isNovel |-> TRUE, meetsNew |-> TRUE, crowd |-> FALSE,
   reversible |-> TRUE, opens |-> TRUE, closes |-> FALSE, gut |-> "excited"]
ExampleB == [DefaultOption EXCEPT !.reversible = FALSE]
OtherOptions == {DefaultOption, ExampleA, ExampleB, [ExampleA EXCEPT !.closes = TRUE]}

\* ----------------------------------------------------- the check-in inputs
\* the buttons of the form: novelty 0..4, weak ties 0..3, strong ties 0..3
CheckIns ==
  [nov : 0..4, wt : 0..3, st : 0..3, yes : BOOLEAN, noticed : BOOLEAN, shared : BOOLEAN]

\* -------------------------------------------------------- the probe inputs
MaxFires == 3
\* the samples the probes are fired with, of two bearings
ProbeSamples == {ShortBase, [ShortBase EXCEPT ![1] = 255]}
\* samples with bytes[0..1] at both ends of each of the 16 sectors
BearingSamples ==
  {[ShortBase EXCEPT ![1] = 16 * k + hi, ![2] = lo] :
     k \in 0..15, hi \in {0, 15}, lo \in {0, 1, 254, 255}}
\* the ticks of the interval that a session is followed for
MaxTicks == 3
\* setInterval(doScan, 3000)
ScanPeriod == TmNorm(0, 3000, 0)
\* the birth dates that the settings are saved with
ScanBirths == {b \in Births : b.month \in {2, 3}}
\* a millisecond
Tick == TmNorm(0, 1, 0)
\* a probe of an earlier session, as df_probes stores it
StoredProbe ==
  LET e == fullEntropyAnalysis(ShortBase)
  IN  generateProbe("", e, calculateField(e, NoResult, DateAt(TmZero)), DateAt(TmZero))
\* a stored history of n probes, fired a millisecond apart, the last one at
\* time zero
StoredHistory(n) ==
  [j \in 1..n |-> [StoredProbe EXCEPT !.timestamp = TmScale(Tick, j - n)]]

\* ------------------------------------------------------- the backend inputs
MaxCalls == 3
MaxDays == 2
\* the days that a streak is followed for
StreakDays == 7
\* what a client sends to updateProfile or to the table directly
ClientUpdates ==
  { [theme |-> "light"], [theme |-> "dark"],
    [subscription_tier |-> "premium", subscription_status |-> "active"],
    [subscription_status |-> "active"], [subscription_tier |-> "gold"],
    [probes_fired_today |-> 0] }
\* the events Stripe sends: type, subscription.status and billing_reason
StripeEvents ==
  [type : {"checkout.session.completed", "customer.subscription.deleted",
           "invoice.payment_failed"},
   status : {"active"}, reason : {"subscription_cycle"}, user : BOOLEAN]
  \cup [type : {"customer.subscription.updated"},
        status : {"active", "past_due", "unpaid", "canceled", "incomplete",
                  "incomplete_expired", "trialing", "paused", "other"},
        reason : {"subscription_cycle"}, user : BOOLEAN]
  \cup [type : {"invoice.payment_succeeded"}, status : {"active"},
        reason : {"subscription_cycle", "subscription_create"}, user : BOOLEAN]

\* ============================================================ THE MACHINES
\* each part of the application as DriftfieldApp constructs it
EntropyIdle == data = <<>> /\ entropy = NoResult
FieldIdle == birthDate = NoResult /\ now = DateAt(TmZero) /\ field = NoResult
EventsIdle == events = <<>> /\ patterns = analyzePatterns(<<>>, 1)
DecisionIdle == optA = DefaultOption /\ optB = DefaultOption /\ decResult = NoResult
SurfaceIdle ==
  /\ checkin = [nov |-> 0, wt |-> 0, st |-> 0, yes |-> FALSE, noticed |-> FALSE, shared |-> FALSE]
  /\ daily = NoResult /\ dayScore = NoResult
ProbesIdle == probe = NoResult /\ probeHistory = <<>>
\* a user who signed up on day 1 and has called nothing yet
BackendIdle ==
  /\ profile = NewProfile(1) /\ probes = <<>> /\ today = 1
  /\ calls = [c \in 1..MaxCalls |-> "idle"] /\ lastEvent = "none"
  /\ ended = FALSE
\* no interval is set
ScanIdle == scan = [scanning |-> FALSE, callback |-> NoResult]
RestIdle == SurfaceIdle /\ ProbesIdle /\ BackendIdle /\ ScanIdle

\* ---- the entropy engine: sampleEntropy has drawn the bytes
InitEntropy ==
  /\ data \in Samples /\ entropy = NoResult
  /\ FieldIdle /\ EventsIdle /\ DecisionIdle /\ RestIdle
Analyze ==
  /\ entropy = NoResult
  /\ entropy' = fullEntropyAnalysis(data)
  /\ UNCHANGED <<data, fieldVars, eventVars, decisionVars, restVars>>
SpecEntropy == InitEntropy /\ [][Analyze]_vars
\* the same for fullEntropyAnalysis(bytes) with bytes <= MinLen
InitShort ==
  /\ data \in ShortSamples /\ entropy = NoResult
  /\ FieldIdle /\ EventsIdle /\ DecisionIdle /\ RestIdle
SpecShort == InitShort /\ [][Analyze]_vars

\* ---- the field composer: an entropy result, a birth date and the clock
InitField ==
  /\ data = <<>> /\ field = NoResult
  /\ \/ now \in ClockDates \cup BoundaryDates /\ entropy = Quiet /\ birthDate = NoResult
     \/ now \in FieldDates /\ entropy \in FieldEntropies
          /\ birthDate \in Births \cup {NoResult}
  /\ EventsIdle /\ DecisionIdle /\ RestIdle
ComposeField ==
  /\ field = NoResult
  /\ field' = calculateField(entropy, birthDate, now)
  /\ UNCHANGED <<entropyVars, birthDate, now, eventVars, decisionVars, restVars>>
SpecField == InitField /\ [][ComposeField]_vars
\* the same for a birth on every day of the year
InitYear ==
  /\ data = <<>> /\ field = NoResult
  /\ now = DateAt(TmZero) /\ entropy = Quiet /\ birthDate \in YearBirths
  /\ EventsIdle /\ DecisionIdle /\ RestIdle
SpecYear == InitYear /\ [][ComposeField]_vars

\* ---- the event log.  addEvent appends and the render that follows
\* recomputes the patterns; gap is the time since the last event, in hours.
InitEvents == EntropyIdle /\ FieldIdle /\ EventsIdle /\ DecisionIdle /\ RestIdle
addEvent(eventText, eventPol, eventCat, gap, pick) ==
  /\ Len(events) < MaxEvents
  /\ Trim(eventText) # <<>>
  /\ LET timestamp == IF events = <<>> THEN gap ELSE events[Len(events)].timestamp + gap
         e == [text |-> Trim(eventText), polarity |-> eventPol,
               category |-> CategoryOf(eventCat), timestamp |-> timestamp]
     IN  /\ events' = Append(events, e)
         /\ patterns' = analyzePatterns(events', pick)
  /\ UNCHANGED <<entropyVars, fieldVars, decisionVars, restVars>>
\* events of every polarity, without a category, an hour apart
NextStreak ==
  \E eventText \in EventTexts, eventPol \in Polarities :
    addEvent(eventText, eventPol, <<>>, 1, 1)
SpecStreak == InitEvents /\ [][NextStreak]_vars
\* events of every category
NextThematic ==
  \E eventText \in EventTexts, eventCat \in EventCats, pick \in 1..MaxEvents :
    addEvent(eventText, "positive", eventCat, 1, pick)
SpecThematic == InitEvents /\ [][NextThematic]_vars
\* events at every pace: the hours from one event to the next
Gaps == {0, 1, 3, 12}
NextPace ==
  \E gap \in Gaps : addEvent(<<"saw">>, "positive", <<>>, gap, 1)
SpecPace == InitEvents /\ [][NextPace]_vars

\* ---- the decision form, filled in
InitDecision ==
  /\ optA \in Options /\ optB \in OtherOptions /\ decResult = NoResult
  /\ EntropyIdle /\ FieldIdle /\ EventsIdle /\ RestIdle
Evaluate ==
  /\ decResult = NoResult
  /\ decResult' = evaluateDecision(optA, optB)
  /\ UNCHANGED <<entropyVars, fieldVars, eventVars, optA, optB, restVars>>
SpecDecision == InitDecision /\ [][Evaluate]_vars

\* ---- the daily check-in, filled in
InitSurface ==
  /\ checkin \in CheckIns /\ daily = NoResult /\ dayScore = NoResult
  /\ EntropyIdle /\ FieldIdle /\ EventsIdle /\ DecisionIdle /\ ProbesIdle /\ BackendIdle
  /\ ScanIdle
submitDaily ==
  LET entry == [novelty |-> checkin.nov, weakTies |-> checkin.wt,
                strongTies |-> checkin.st, saidYes |-> checkin.yes,
                noticed |-> checkin.noticed, shared |-> checkin.shared,
                date |-> toDateString(now)]
  IN  /\ daily' = entry
      /\ dayScore' = scoreSurface(entry)
      /\ UNCHANGED <<entropyVars, fieldVars, eventVars, decisionVars, checkin, probeVars,
                     backendVars, scanVars>>
SpecSurface == InitSurface /\ [][submitDaily]_vars

\* ---- the probes: the load effect has read a stored history.  fireProbe
\* draws a fresh sample and reads the clock, a millisecond after the last
\* probe; the doScan it may start with sets entropy and field, which the
\* handler then sets again, so that the values of fireProbe are the ones kept.
InitProbes ==
  /\ \E n \in 0..(KeepProbes + 1) : probeHistory = StoredHistory(n)
  /\ probe = NoResult
  /\ EntropyIdle /\ FieldIdle /\ EventsIdle /\ DecisionIdle /\ SurfaceIdle /\ BackendIdle
  /\ ScanIdle
fireProbe(d) ==
  /\ TmLess(now.t, TmScale(Tick, MaxFires))
  /\ now' = DateAt(TmAdd(now.t, Tick))
  /\ entropy' = fullEntropyAnalysis(d)
  /\ field' = calculateField(entropy', birthDate, now')
  /\ probe' = generateProbe("", entropy', field', now')
  /\ probeHistory' = Append(KeepLast(probeHistory, KeepProbes), probe')
  /\ UNCHANGED <<data, birthDate, eventVars, decisionVars, surfaceVars, backendVars, scanVars>>
NextProbes == \E d \in ProbeSamples : fireProbe(d)
SpecProbes == InitProbes /\ [][NextProbes]_vars
\* the first probe of a session, fired with the sample that sampleEntropy drew
InitBearing ==
  /\ data \in BearingSamples /\ entropy = NoResult
  /\ FieldIdle /\ EventsIdle /\ DecisionIdle /\ RestIdle
fireFirstProbe == probe = NoResult /\ fireProbe(data)
SpecBearing == InitBearing /\ [][fireFirstProbe]_vars

\* ---- continuous scanning.  date is the Date that new Date() returns in the
\* call; b is the birthDate of the render that created this doScan
\* (useCallback with [birthDate]).
doScan(d, b, date) ==
  /\ data' = d
  /\ entropy' = fullEntropyAnalysis(d)
  /\ field' = calculateField(entropy', b, date)
otherVars == <<eventVars, decisionVars, surfaceVars, probeVars, backendVars>>
InitScan ==
  /\ EntropyIdle /\ FieldIdle /\ EventsIdle /\ DecisionIdle /\ RestIdle
\* the load effect reads df_birth, and the effect of line 901 scans once
loadBirth(d, b) ==
  /\ entropy = NoResult
  /\ birthDate' = b
  /\ doScan(d, b, now)
  /\ UNCHANGED <<now, scan, otherVars>>
\* startScan scans and hands its doScan, the one of the current render, to
\* setInterval
startScan(d) ==
  /\ entropy # NoResult /\ ~scan.scanning
  /\ doScan(d, birthDate, now)
  /\ scan' = [scanning |-> TRUE, callback |-> birthDate]
  /\ UNCHANGED <<birthDate, now, otherVars>>
\* the interval fires, 3 seconds after the last time, and calls the doScan it
\* was given
scanTick(d) ==
  /\ scan.scanning
  /\ TmLess(now.t, TmScale(ScanPeriod, MaxTicks))
  /\ now' = DateAt(TmAdd(now.t, ScanPeriod))
  /\ doScan(d, scan.callback, now')
  /\ UNCHANGED <<birthDate, scan, otherVars>>
\* stopScan clears the interval
stopScan ==
  /\ scan.scanning
  /\ scan' = [scanning |-> FALSE, callback |-> NoResult]
  /\ UNCHANGED <<entropyVars, fieldVars, otherVars>>
\* saveBirth with a valid date sets birthDate; the render that follows makes
\* a new doScan and the effect of line 901 calls it once
saveBirth(d, b) ==
  /\ entropy # NoResult
  /\ birthDate' = b
  /\ doScan(d, b, now)
  /\ UNCHANGED <<now, scan, otherVars>>
\* Clear Birth: setBirthDate(null), and the same effect
clearBirth(d) ==
  /\ entropy # NoResult /\ birthDate # NoResult
  /\ birthDate' = NoResult
  /\ doScan(d, NoResult, now)
  /\ UNCHANGED <<now, scan, otherVars>>
NextScan ==
  \/ \E d \in ProbeSamples, b \in ScanBirths \cup {NoResult} : loadBirth(d, b)
  \/ \E d \in ProbeSamples : startScan(d)
  \/ \E d \in ProbeSamples : scanTick(d)
  \/ stopScan
  \/ \E d \in ProbeSamples, b \in ScanBirths : saveBirth(d, b)
  \/ \E d \in ProbeSamples : clearBirth(d)
SpecScan == InitScan /\ [][NextScan]_vars

\* ---- the backend.  A call of useProbes' fireProbe awaits four requests in
\* turn, and requests of different calls (two tabs, two devices, a second
\* click) reach the database in any order; each request is one transaction.
\* trackEvent and refreshProfile change no row.
frontVars == <<entropyVars, fieldVars, eventVars, decisionVars, surfaceVars, probeVars, scanVars>>
InitBackend ==
  /\ EntropyIdle /\ FieldIdle /\ EventsIdle /\ DecisionIdle
  /\ SurfaceIdle /\ ProbesIdle /\ BackendIdle /\ ScanIdle
\* 1. checkLimit: the rpc check_probe_limit
check_probe_limit(c) ==
  /\ calls[c] = "idle"
  /\ LET reset == profile.probes_last_reset < today
         fired == IF reset THEN 0 ELSE profile.probes_fired_today
     IN  /\ profile' = IF reset
                       THEN [profile EXCEPT !.probes_fired_today = 0,
                                            !.probes_last_reset = today]
                       ELSE profile
         /\ calls' = [calls EXCEPT ![c] = IF fired < DailyLimit(profile)
                                          THEN "insert" ELSE "limitReached"]
  /\ UNCHANGED <<frontVars, probes, today, lastEvent, ended>>
\* 2. the insert into probes; created_at is NOW()
insertProbe(c) ==
  /\ calls[c] = "insert"
  /\ probes' = Append(probes, today)
  /\ calls' = [calls EXCEPT ![c] = "increment"]
  /\ UNCHANGED <<frontVars, profile, today, lastEvent, ended>>
\* 3. the rpc increment_probe_count
increment_probe_count(c) ==
  /\ calls[c] = "increment"
  /\ profile' = [profile EXCEPT !.probes_fired_today = @ + 1, !.total_probes_fired = @ + 1]
  /\ calls' = [calls EXCEPT ![c] = "streak"]
  /\ UNCHANGED <<frontVars, probes, today, lastEvent, ended>>
\* 4. the rpc update_streak, after which the call returns success
update_streak(c) ==
  /\ calls[c] = "streak"
  /\ profile' = StreakRow(profile, today)
  /\ calls' = [calls EXCEPT ![c] = "success"]
  /\ UNCHANGED <<frontVars, probes, today, lastEvent, ended>>
\* midnight, up to the day last
Midnight(last) ==
  /\ today < last
  /\ today' = today + 1
  /\ UNCHANGED <<frontVars, profile, probes, calls, lastEvent, ended>>
NextDay == Midnight(MaxDays)
\* a step of call c of useProbes' fireProbe
fireProbeCall(c) ==
  \/ check_probe_limit(c)
  \/ insertProbe(c)
  \/ increment_probe_count(c)
  \/ update_streak(c)
NextLimit ==
  \/ \E c \in 1..MaxCalls : fireProbeCall(c)
  \/ NextDay
SpecLimit == InitBackend /\ [][NextLimit]_vars
\* the webhook handler, which writes with the service role
handler(event) ==
  /\ profile' = SetColumns(profile, WebhookUpdates(event))
  /\ lastEvent' = event.type
  /\ ended' = IF ~event.user THEN ended
              ELSE IF event.type = "customer.subscription.deleted" THEN TRUE
              ELSE IF event.type = "checkout.session.completed" THEN FALSE
              ELSE ended
  /\ UNCHANGED <<frontVars, probes, today, calls>>
\* updateProfile, or the same update sent to the table directly: the policy
\* "Users can update own profile" passes the user's own row, whatever the
\* columns; a row that breaks a CHECK constraint is refused
updateProfile(updates) ==
  /\ profile' = IF RowValid(SetColumns(profile, updates))
                THEN SetColumns(profile, updates) ELSE profile
  /\ UNCHANGED <<frontVars, probes, today, calls, lastEvent, ended>>
\* the account of a user who fires one probe at a time
NextAccount ==
  \/ \E event \in StripeEvents : handler(event)
  \/ \E updates \in ClientUpdates : updateProfile(updates)
  \/ fireProbeCall(1)
  \/ NextDay
SpecAccount == InitBackend /\ [][NextAccount]_vars
\* the same account with no client writing to the row: the webhook events in
\* any order, any number of times
NextBilling ==
  \/ \E event \in StripeEvents : handler(event)
  \/ fireProbeCall(1)
  \/ NextDay
SpecBilling == InitBackend /\ [][NextBilling]_vars
\* the rpc update_streak called on any days, any number of times a day
rpc_update_streak ==
  /\ profile' = StreakRow(profile, today)
  /\ UNCHANGED <<frontVars, probes, today, calls, lastEvent, ended>>
NextStreakDay == rpc_update_streak \/ Midnight(StreakDays)
SpecStreakDays == InitBackend /\ [][NextStreakDay]_vars

\* ================================================================= CLAIMS
AllEqual(d) == \A i \in 1..Len(d) : d[i] = d[1]
Analyzed == ~entropy.none

\* C1: for every byte sample of at least 4 bytes the anomalyScore returned by
\* fullEntropyAnalysis is a number in [0, 1]: the five deviations are
\* non-negative, and their weighted sum times 3 is clamped at 1.
C1_AnomalyScoreInUnitInterval ==
  (Analyzed /\ Len(data) >= 4) =>
    /\ ~entropy.anomalyNaN
    /\ entropy.entropyDev >= 0 /\ entropy.runs.devAbs >= 0 /\ entropy.chi.normAbs >= 0
    /\ entropy.corr.abs >= 0 /\ entropy.mc.deviation >= 0
    /\ entropy.anomalyScore >= 0 /\ entropy.anomalyScore <= Unit
    /\ entropy.anomalyScore = Min(3 * entropy.anomalyRaw, Unit)
\* the all-zero sample has been analysed, and the clamp was needed
C1_Witness ==
  /\ Analyzed /\ Len(data) >= 4 /\ \A i \in 1..Len(data) : data[i] = 0
  /\ 3 * entropy.anomalyRaw > Unit /\ entropy.anomalyScore = Unit

Composed == ~field.none

\* C3: calculateField reports "positive" exactly when composite >= 0, and
\* magnitude = min(|composite| * 2.5, 1), which lies in [0, 1]; with no birth
\* date, lunar energy 0.5, gate energy 0.5 and anomalyScore 0 the composite is
\* 0, the polarity "positive" and the magnitude 0.
C3_FieldPolarityAndMagnitude ==
  Composed =>
    /\ (field.polarity = "positive") <=> (field.composite >= 0)
    /\ field.polarity \in {"positive", "negative"}
    /\ field.magnitude = Min((5 * Abs(field.composite)) \div 2, FieldUnit)
    /\ field.magnitude >= 0 /\ field.magnitude <= FieldUnit
    /\ (/\ birthDate = NoResult
        /\ 2 * field.lunar.energy = Unit
        /\ 2 * field.temporal.energy = Unit
        /\ entropy.anomalyScore = 0)
         => (field.composite = 0 /\ field.polarity = "positive" /\ field.magnitude = 0)
\* the tie: no birth date, both energies 0.5, nothing from the entropy
C3_Witness ==
  /\ Composed /\ birthDate = NoResult /\ entropy.anomalyScore = 0
  /\ 2 * field.lunar.energy = Unit /\ field.temporal.name = "Solar Apex"
  /\ field.composite = 0 /\ field.polarity = "positive" /\ field.magnitude = 0

\* C4: a sample of n >= 4 equal bytes has anomalyScore exactly 1 and no NaN
\* metric: Shannon entropy 0, serial correlation 0 by the zero-denominator
\* fallback, and a scaled sum above 1 before clamping.
C4_AllEqualScoresOne ==
  (Analyzed /\ Len(data) >= 4 /\ AllEqual(data)) =>
    /\ ~entropy.anomalyNaN /\ ~entropy.chi.nan /\ ~entropy.mc.nan /\ ~entropy.corr.nan
    /\ entropy.shannon = 0
    /\ entropy.corr.denZero /\ entropy.corr.abs = 0
    /\ 3 * entropy.anomalyRaw > Unit
    /\ entropy.anomalyScore = Unit
C4_Witness ==
  /\ Analyzed /\ Len(data) = 5 /\ AllEqual(data) /\ data[1] = 200
  /\ entropy.anomalyScore = Unit /\ entropy.mc.inside = 0

\* the gates whose range [start, end) holds the time of day h60 / 60
GatesHolding(h60) ==
  {i \in 1..Len(Gates) : 60 * Gates[i].range[1] <= h60 /\ h60 < 60 * Gates[i].range[2]}

\* C5: at every hour 0..23 and minute 0..59 exactly one of the 9 gate ranges
\* [start, end) holds the time of day, and temporalGate returns that gate: the
\* ranges are contiguous from 0 to 24, so the fallback to the first gate is
\* never taken.
C5_ExactlyOneGate ==
  /\ Len(Gates) = 9
  /\ Gates[1].range[1] = 0 /\ Gates[Len(Gates)].range[2] = 24
  /\ \A i \in 1..(Len(Gates) - 1) : Gates[i].range[2] = Gates[i + 1].range[1]
  /\ \A i \in 1..Len(Gates) : Gates[i].range[1] < Gates[i].range[2]
  /\ now.hours \in 0..23 /\ now.minutes \in 0..59
  /\ Cardinality(GatesHolding(60 * now.hours + now.minutes)) = 1
  /\ Composed =>
       \E i \in GatesHolding(60 * now.hours + now.minutes) :
          /\ field.temporal.name = Gates[i].name
          /\ field.temporal.range = Gates[i].range
          /\ field.temporal.energy = Gates[i].energy
\* the first minute of a gate that is not the first
C5_Witness ==
  /\ Composed /\ now.hours = 22 /\ now.minutes = 0
  /\ field.temporal.name = "Night Descent"

\* the Date one synodic period after date: new Date(date.getTime() +
\* 29.53058770576 * 86400000) keeps whole milliseconds only
PlusSynodic(date) ==
  LET later == TmAdd(date.t, Cycle)
  IN  DateAt(TmNorm(later.d, later.ms, 0))
\* what a period loses when it is cut to whole milliseconds
Shortfall == TmNorm(0, 0, Cycle.u)
\* the phase is folded into [0, cycle) and idx is floor(phase / cycle * 8)
FoldedIntoBucket(lunar) ==
  /\ ~TmLess(lunar.phase, TmZero) /\ TmLess(lunar.phase, Cycle)
  /\ lunar.idx \in 0..7
  /\ ~TmLess(TmScale(lunar.phase, 8), TmScale(Cycle, lunar.idx))
  /\ TmLess(TmScale(lunar.phase, 8), TmScale(Cycle, lunar.idx + 1))
  /\ lunar.name = Names[lunar.idx + 1]

PatternsOf(type) == SelectSeq(patterns.patterns, LAMBDA p : p.type = type)

\* C7: with fewer than 3 events, none included, analyzePatterns returns no
\* pattern and the insight that asks for 3 or more events.
C7_FewEventsNoPatterns ==
  Len(events) < 3 =>
    /\ patterns.patterns = <<>>
    /\ patterns.insight = "Log 3+ events to detect patterns."
\* two events of one polarity in the same part of the day
C7_Witness ==
  /\ Len(events) = 2 /\ events[1].polarity = events[2].polarity
  /\ Bucket(events[1].timestamp) = Bucket(events[2].timestamp)
  /\ patterns.patterns = <<>>

\* the length of the longest run of consecutive events of one polarity
LongestRun ==
  LET runs == {<<i, j>> \in (1..Len(events)) \X (1..Len(events)) :
                 i <= j /\ \A k \in i..j : events[k].polarity = events[i].polarity}
  IN  CHOOSE n \in 0..Len(events) :
        /\ n = 0 \/ \E r \in runs : r[2] - r[1] + 1 = n
        /\ \A r \in runs : r[2] - r[1] + 1 <= n

\* C8: with 3 or more events a streak pattern is reported exactly when the
\* longest run of consecutive events of equal polarity has length >= 3, and
\* its strength is longestRun / totalEvents.
C8_StreakIffRunOfThree ==
  Len(events) >= 3 =>
    /\ Len(PatternsOf("streak")) = (IF LongestRun >= 3 THEN 1 ELSE 0)
    /\ \A i \in 1..Len(PatternsOf("streak")) :
         PatternsOf("streak")[i].strength = <<LongestRun, Len(events)>>
\* four positive events and then a negative one: strength 4/5
C8_Witness ==
  /\ Len(events) = 5
  /\ \A i \in 1..4 : events[i].polarity = "positive"
  /\ events[5].polarity = "negative"
  /\ PatternsOf("streak") # <<>>
  /\ PatternsOf("streak")[1].strength = <<4, 5>>

\* how many events have category c
CategoryCount(c) == Cardinality({i \in 1..Len(events) : events[i].category = c})
LoggedCategories == {events[i].category : i \in 1..Len(events)} \ {NoCategory}

\* C9: with 3 or more events a thematic pattern is reported exactly when the
\* most frequent non-null category occurs at least 2 times; it names that
\* category, with strength categoryCount / totalEvents.
C9_ThematicIffCategoryTwice ==
  Len(events) >= 3 =>
    /\ Len(PatternsOf("thematic")) =
         (IF \E c \in LoggedCategories : CategoryCount(c) >= 2 THEN 1 ELSE 0)
    /\ \A i \in 1..Len(PatternsOf("thematic")) :
         LET p == PatternsOf("thematic")[i]
         IN  /\ p.label[1] \in LoggedCategories
             /\ \A c \in LoggedCategories : CategoryCount(c) <= CategoryCount(p.label[1])
             /\ p.label[2] = CategoryCount(p.label[1])
             /\ p.strength = <<CategoryCount(p.label[1]), Len(events)>>

Evaluated == ~decResult.none
\* the deltas of an option, as the table gives them
TableScore(o) ==
  (IF o.isNovel THEN 25 ELSE 5) + (IF o.meetsNew THEN 20 ELSE 0)
  + (IF o.crowd THEN 10 ELSE 0) + (IF o.reversible THEN 15 ELSE 5)
  + (IF o.opens THEN 20 ELSE 0) - (IF o.closes THEN 10 ELSE 0)
  + (CASE o.gut = "excited" -> 15 [] o.gut = "anxious" -> 10
       [] o.gut = "dread" -> 0 - 5 [] o.gut = "neutral" -> 0)

\* C10: evaluateDecision scores each option as the sum of the fixed deltas,
\* for every combination of attributes, and diff is score A minus score B;
\* the example options score 95 and 10, diff 85.
C10_ScoresAreSumsOfDeltas ==
  Evaluated =>
    /\ decResult.a.score = TableScore(optA)
    /\ decResult.b.score = TableScore(optB)
    /\ decResult.diff = TableScore(optA) - TableScore(optB)
    /\ (optA = ExampleA /\ optB = ExampleB) =>
         (decResult.a.score = 95 /\ decResult.b.score = 10 /\ decResult.diff = 85)
\* the example options, evaluated
C10_Witness ==
  /\ Evaluated /\ optA = ExampleA /\ optB = ExampleB
  /\ decResult.a.score = 95 /\ decResult.b.score = 10 /\ decResult.diff = 85
  /\ decResult.verdict.option = "A"

\* C11: diff is score A minus score B; the verdict is near-equal exactly when
\* |diff| < 10, and otherwise names option A with margin diff when diff > 0
\* and option B with margin |diff| when diff < 0, so |diff| = 10 names an
\* option; with the two options swapped diff is negated.
C11_VerdictFollowsDiff ==
  Evaluated =>
    LET d == decResult.diff
        v == decResult.verdict
    IN  /\ d = decResult.a.score - decResult.b.score
        /\ (v.option = "near-equal") <=> (d > 0 - 10 /\ d < 10)
        /\ (v.option = "A") <=> (d >= 10)
        /\ (v.option = "B") <=> (d <= 0 - 10)
        /\ v.option = "A" => v.by = d
        /\ v.option = "B" => v.by = 0 - d
        /\ evaluateDecision(optB, optA).diff = 0 - d
\* a margin of exactly 10 in favour of option B
C11_Witness ==
  /\ Evaluated /\ decResult.diff = 0 - 10
  /\ decResult.verdict.option = "B" /\ decResult.verdict.by = 10


Submitted == dayScore # NoResult
\* the points the bands and flags of a check-in add up to, before clamping
SurfaceSum ==
  <<0, 10, 20, 30, 30>>[checkin.nov + 1] + <<0, 15, 25, 25>>[checkin.wt + 1]
    + <<0, 5, 5, 5>>[checkin.st + 1] + (IF checkin.yes THEN 20 ELSE 0)
    + (IF checkin.noticed THEN 15 ELSE 0) + (IF checkin.shared THEN 10 ELSE 0)
AllTopBands ==
  /\ checkin.nov >= 3 /\ checkin.wt >= 2 /\ checkin.st >= 1
  /\ checkin.yes /\ checkin.noticed /\ checkin.shared

\* C12: for every check-in the form can submit, the score scoreSurface returns
\* lies in [0, 100] and is the sum of the band points (novelty 30/20/10/0,
\* weak ties 25/15/0, strong ties 5/0) and the flag bonuses (20, 15, 10)
\* clamped to 100; the sum exceeds 100 only with every band at its top and
\* every flag set, and is then 105.
C12_SurfaceScoreClamped ==
  Submitted =>
    /\ dayScore.score \in 0..100
    /\ dayScore.score = Min(SurfaceSum, 100)
    /\ SurfaceSum > 100 => AllTopBands /\ SurfaceSum = 105
    /\ AllTopBands => SurfaceSum = 105
C12_Witness ==
  /\ Submitted /\ AllTopBands /\ SurfaceSum = 105 /\ dayScore.score = 100
  /\ Len(dayScore.factors) = 6


\* the probes of the history are a millisecond apart, as they were fired
FiringOrder ==
  \A i \in 1..(Len(probeHistory) - 1) :
    TmSub(probeHistory[i + 1].timestamp, probeHistory[i].timestamp) = Tick
\* the number of probes a fireProbe drops from the front
Dropped == Len(probeHistory) + 1 - Len(probeHistory')

\* C13: from a stored history of at most 30 probes, after any number of
\* fireProbe calls the history holds at most 30 probes, in firing order with
\* the probe fired last at its end; each fireProbe appends its probe, drops
\* the oldest probe only when 30 are held, and leaves the probes it keeps as
\* they were.
C13_HistoryKeepsLastThirty ==
  /\ [](/\ Len(probeHistory) <= 30
        /\ FiringOrder
        /\ probe # NoResult =>
             probeHistory[Len(probeHistory)] = probe /\ probe.timestamp = now.t)
  /\ [][/\ Len(probeHistory') = Min(30, Len(probeHistory) + 1)
        /\ \A i \in 1..(Len(probeHistory') - 1) : probeHistory'[i] = probeHistory[i + Dropped]]_vars
C13_Witness ==
  /\ probe # NoResult /\ Len(probeHistory) = 30
  /\ TmLess(TmScale(Tick, 1 - 30), probeHistory[1].timestamp)
  /\ probeHistory[30] = probe


\* the ranges of the table that hold the birth date, both ends included
RangesHolding ==
  {i \in 1..Len(Signs) : /\ birthDate.month * 100 + birthDate.day >= Signs[i].start
                         /\ birthDate.month * 100 + birthDate.day <= Signs[i].end}
Born(month, from, to) ==
  birthDate.month = month /\ birthDate.day >= from /\ birthDate.day <= to

\* C14: for a birth on any day of the year, exactly one range of the zodiac
\* table holds the date, both boundary dates included, and zodiacSign returns
\* that entry, not the fallback; December 22-31 and January 1-19 both give
\* Capricorn.
C14_ExactlyOneSign ==
  Composed =>
    /\ Cardinality(RangesHolding) = 1
    /\ \A i \in RangesHolding : field.sign = Signs[i]
    /\ Born(12, 22, 31) \/ Born(1, 1, 19) => field.sign.name = "Capricorn"
    /\ field.sign.name = "Capricorn" => Born(12, 22, 31) \/ Born(1, 1, 19)
C14_Witness ==
  /\ Composed /\ Born(12, 31, 31)
  /\ field.sign = Signs[13] /\ field.sign.name = "Capricorn"


\* C15: the analysis of an empty byte sample is rejected with an error and
\* returns no NaN metric and no NaN anomalyScore.
C15_EmptySampleRejected ==
  Analyzed /\ data = <<>> =>
    /\ "error" \in DOMAIN entropy
    /\ ~entropy.chi.nan /\ ~entropy.mc.nan /\ ~entropy.anomalyNaN


\* the seed mapped to [-1, 1]: (polaritySeed / 255) * 2 - 1
RawPolarity == DblSub(DblTwice(DblDiv(data[6], 255)), DblOne)

\* C19: the bias added to the polarity seed is +0.2 exactly when the
\* anomalyScore the analysis returns (scaled by 3 and clamped) is above 0.1,
\* and -0.1 otherwise.
C19_BiasFollowsReturnedScore ==
  Analyzed /\ HasByte(data, 5) /\ ~entropy.anomalyNaN =>
    entropy.polarityRaw =
      DblAdd(RawPolarity, IF entropy.anomalyScore > Unit \div 10
                          THEN DblDiv(1, 5) ELSE DblNeg(DblDiv(1, 10)))


\* C19 as amended: the bias added to the polarity seed is +0.2 exactly when
\* the weighted sum of the five deviations, before it is scaled by 3 and
\* clamped, is above 0.1, and -0.1 otherwise.
C19_BiasFollowsUnscaledSum ==
  Analyzed /\ HasByte(data, 5) /\ ~entropy.anomalyNaN =>
    entropy.polarityRaw =
      DblAdd(RawPolarity, IF entropy.anomalyRaw > Unit \div 10
                          THEN DblDiv(1, 5) ELSE DblNeg(DblDiv(1, 10)))
\* a returned score above 0.1 whose sum before scaling is not, biased by -0.1
C19_Witness ==
  /\ Analyzed /\ HasByte(data, 5)
  /\ entropy.anomalyScore > Unit \div 10 /\ entropy.anomalyRaw <= Unit \div 10
  /\ entropy.polarityRaw = DblAdd(RawPolarity, DblNeg(DblDiv(1, 10)))


\* where the runs of the longest length start
TiedStarts ==
  {i \in 1..(Len(events) - LongestRun + 1) :
     \A k \in i..(i + LongestRun - 1) : events[k].polarity = events[i].polarity}
FirstTied == CHOOSE i \in TiedStarts : \A j \in TiedStarts : i <= j
LastTied == CHOOSE i \in TiedStarts : \A j \in TiedStarts : i >= j
Tie == Len(events) >= 3 /\ LongestRun >= 3 /\ Cardinality(TiedStarts) >= 2
\* the polarity the streak pattern names
StreakPolarity == PatternsOf("streak")[1].label[2]

\* C20: when two or more runs tie for the longest length, the streak pattern
\* reports the polarity of the tied run that occurred last.
C20_TieGivesLastRun ==
  Tie => PatternsOf("streak") # <<>> /\ StreakPolarity = events[LastTied].polarity

\* C20 as amended: when two or more runs tie for the longest length, the
\* streak pattern reports the polarity of the tied run that occurred first.
C20_TieGivesFirstRun ==
  Tie => PatternsOf("streak") # <<>> /\ StreakPolarity = events[FirstTied].polarity
\* three positive events and then three negative ones: a positive streak
C20_Witness ==
  /\ Tie /\ Len(events) = 6
  /\ events[1].polarity = "positive" /\ events[6].polarity = "negative"
  /\ PatternsOf("streak")[1].label = <<3, "positive">>


\* the probes recorded on day d
ProbesOn(d) == Cardinality({i \in 1..Len(probes) : probes[i] = d})

\* C16: a free-tier user records at most 1 probe per calendar day, under any
\* interleaving of the requests of fireProbe calls; once a probe is recorded
\* for the day every call that starts after it is blocked.
C16_FreeTierOneProbePerDay ==
  ~IsPremium(profile) => \A d \in 1..MaxDays : ProbesOn(d) <= 1


\* C17: no update an authenticated client sends changes subscription_tier or
\* subscription_status: only the webhook sets them.
C17_ClientCannotSetSubscription ==
  [][(\E updates \in ClientUpdates : updateProfile(updates)) =>
       /\ profile'.subscription_tier = profile.subscription_tier
       /\ profile'.subscription_status = profile.subscription_status]_vars


\* an invoice.payment_failed event of the user is processed for a profile
\* that is premium and active
PaymentFails ==
  /\ IsPremium(profile)
  /\ \E event \in StripeEvents :
       event.type = "invoice.payment_failed" /\ event.user /\ handler(event)
\* premium and past_due, and no later webhook event processed
GracePeriod ==
  /\ lastEvent = "invoice.payment_failed"
  /\ profile.subscription_tier = "premium" /\ profile.subscription_status = "past_due"

\* C18: processing invoice.payment_failed for an active premium user sets
\* subscription_status to past_due, and while the profile stays so, until
\* another webhook event is processed, the server still gives premium access:
\* the probe limit check allows unlimited probes and the event history is
\* not cut to 7 days.
C18_PastDueKeepsPremiumAccess ==
  /\ [][PaymentFails => profile'.subscription_status = "past_due"
                        /\ profile'.subscription_tier = "premium"]_vars
  /\ [](GracePeriod => DailyLimit(profile) = 999 /\ EventHistoryDays(profile) = 0)


\* the middle element of the sorted sample
MedianByte ==
  CHOOSE v \in {data[i] : i \in 1..Len(data)} :
    /\ Cardinality({i \in 1..Len(data) : data[i] < v}) <= Len(data) \div 2
    /\ Cardinality({i \in 1..Len(data) : data[i] <= v}) > Len(data) \div 2
\* the class of each byte: above the median, or at the median or above it
ClassesAbove == LET m == MedianByte IN [i \in 1..Len(data) |-> data[i] > m]
ClassesFrom == LET m == MedianByte IN [i \in 1..Len(data) |-> data[i] >= m]
\* the maximal stretches i..j of one class: each starts where the class
\* changes and ends before the next start
MaximalRuns(classes) ==
  LET starts == {i \in 1..Len(classes) : i = 1 \/ classes[i - 1] # classes[i]}
      next(i) == CHOOSE s \in (starts \cup {Len(classes) + 1}) :
                   s > i /\ \A t \in starts : t > i => s <= t
  IN  {<<i, next(i) - 1>> : i \in starts}
\* runsTest has returned the count and the longest of these runs, the
\* deviation (runs - (n + 1) / 2) / ((n + 1) / 2) to a millionth, rounded
\* towards 0, and clusterScore = - deviation
RunsTestOf(classes) ==
  LET found == MaximalRuns(classes)
      n == Len(data)
      num == 2 * Cardinality(found) - (n + 1)
  IN  /\ entropy.runs.runs = Cardinality(found)
      /\ \E r \in found : entropy.runs.maxRun = r[2] - r[1] + 1
      /\ \A r \in found : entropy.runs.maxRun >= r[2] - r[1] + 1
      /\ entropy.runs.devAbs * (n + 1) <= Abs(num) * Unit
      /\ Abs(num) * Unit < (entropy.runs.devAbs + 1) * (n + 1)
      /\ entropy.runs.devNeg = (num < 0)
      /\ entropy.runs.clusterAbs = entropy.runs.devAbs
      /\ entropy.runs.clusterNeg = (num > 0)

\* C21: runsTest puts each byte in the class above the median or in the class
\* at or below it, a byte equal to the median with the smaller bytes, and
\* returns the count of maximal runs of one class, the longest run,
\* deviation = (runs - (n+1)/2) / ((n+1)/2) and clusterScore = -deviation.
C21_RunsOfAboveMedian == Analyzed => RunsTestOf(ClassesAbove)

\* C21 as amended: the classes are at or above the median and below it, a
\* byte equal to the median with the larger bytes; the rest as stated.
C21_RunsOfAtOrAboveMedian == Analyzed => RunsTestOf(ClassesFrom)
\* 102, 255, 0, 0 with median 102: two runs, where the classes above and
\* at-or-below would give three
C21_Witness ==
  /\ Analyzed /\ data = <<102, 255, 0, 0>>
  /\ entropy.runs.median = 102 /\ entropy.runs.runs = 2 /\ entropy.runs.maxRun = 2
  /\ Cardinality(MaximalRuns(ClassesAbove)) = 3


\* the energies recorded in a bucket over the cycles that the dates sweep
EnergiesIn(bucket) ==
  {lunarPhase(d).energy : d \in {x \in BoundaryDates : lunarPhase(x).name = bucket}}
FullMoonEnergies == EnergiesIn("Full Moon")
NewMoonEnergies == EnergiesIn("New Moon")

\* C22: the lunar energy 0.5 + 0.5 * sin(2 * pi * normalized) peaks at full
\* moon and troughs at new moon: no energy of the cycle is above every energy
\* of the Full Moon bucket, and none is below every energy of the New Moon
\* bucket.
C22_PeakAtFullMoonTroughAtNewMoon ==
  Composed =>
    /\ \E e \in FullMoonEnergies : field.lunar.energy <= e
    /\ \E e \in NewMoonEnergies : field.lunar.energy >= e


\* the time from event i to event j
Elapsed(i, j) == events[j].timestamp - events[i].timestamp
\* the mean of the last 3 gaps, Elapsed(n - 3, n) / 3, is below half the mean
\* of all n - 1 gaps, Elapsed(1, n) / (n - 1)
RecentPaceDoubled ==
  LET n == Len(events)
  IN  2 * (n - 1) * Elapsed(n - 3, n) < 3 * Elapsed(1, n)

\* C23: an acceleration pattern, of strength 0.8, is reported exactly when
\* there are at least 4 events and the mean of the last 3 gaps is strictly
\* below 50% of the mean of all gaps; never for exactly 3 events.
C23_AccelerationIffRecentGapsHalved ==
  /\ Len(PatternsOf("acceleration")) =
       (IF Len(events) >= 4 /\ RecentPaceDoubled THEN 1 ELSE 0)
  /\ \A i \in 1..Len(PatternsOf("acceleration")) :
       PatternsOf("acceleration")[i].strength = <<4, 5>>
  /\ Len(events) = 3 => PatternsOf("acceleration") = <<>>
\* gaps of 12, 12, 1, 1, 1 hours: recent mean 1, overall mean 5.4
C23_Witness ==
  /\ Len(events) = 6
  /\ Elapsed(1, 3) = 24 /\ Elapsed(3, 6) = 3
  /\ Len(PatternsOf("acceleration")) = 1
  /\ PatternsOf("acceleration")[1].strength = <<4, 5>>

\* C29: exactly 4 events in non-decreasing timestamp order never give an
\* acceleration pattern (the last 3 gaps are all the gaps); it is reported
\* from 5 events on only.
C29_NoAccelerationAtFourEvents ==
  /\ (/\ Len(events) = 4
      /\ \A i \in 1..3 : events[i].timestamp <= events[i + 1].timestamp)
       => PatternsOf("acceleration") = <<>>
  /\ PatternsOf("acceleration") # <<>> => Len(events) >= 5
\* four events with gaps of 12, 0 and 0 hours, the last two far closer than
\* the first two, and none reported
C29_Witness ==
  /\ Len(events) = 4 /\ Elapsed(1, 2) = 12 /\ Elapsed(2, 4) = 0
  /\ PatternsOf("acceleration") = <<>>


Fired == probe # NoResult
\* the big-endian 16-bit value of bytes[0..1]
Value16 == 256 * data[1] + data[2]
\* the compass, clockwise from North
CompassTable == <<"N", "NNE", "NE", "ENE", "E", "ESE", "SE", "SSE",
                  "S", "SSW", "SW", "WSW", "W", "WNW", "NW", "NNW">>

\* C24: the compass label is entry floor(bearing / 22.5) mod 16 of the table
\* N, NNE, ..., NNW for the bearing v / 65536 * 360 in [0, 360), and that
\* index is floor(v / 4096) for the 16-bit value v of bytes[0..1].
C24_CompassIsSectorOfBearing ==
  Fired =>
    \E k \in 0..15 :
      /\ probe.compassDir = CompassTable[k + 1]
      /\ k = Value16 \div 4096
      /\ 225 * 65536 * k <= 3600 * Value16
      /\ 3600 * Value16 < 225 * 65536 * (k + 1)
\* v = 4096, the first value of the second sector
C24_Witness == Fired /\ Value16 = 4096 /\ probe.compassDir = "NNE"

\* C30: the bearing recorded in the probe, the angle rounded to one decimal,
\* is in [0, 360) and inside the 22.5-degree sector that the compass label
\* names.
C30_BearingInsideNamedSector ==
  Fired =>
    /\ probe.bearing >= 0 /\ probe.bearing < 3600
    /\ \E k \in 0..15 :
         /\ probe.compassDir = CompassTable[k + 1]
         /\ 225 * k <= probe.bearing /\ probe.bearing < 225 * (k + 1)


\* the Pearson denominator sqrt(varX * varY) is zero exactly when the bytes
\* data[0..n-1] are all equal or the bytes data[1..n] are (a variance of
\* whole numbers is zero only for equal numbers)
DenominatorZero ==
  \/ \A i, j \in 1..(Len(data) - 1) : data[i] = data[j]
  \/ \A i, j \in 2..Len(data) : data[i] = data[j]

\* C25: serialCorrelation returns exactly 0, and never NaN, whenever the
\* Pearson denominator is zero, in particular for every input of length >= 2
\* whose bytes are all equal.
C25_ZeroDenominatorGivesZero ==
  Analyzed =>
    /\ DenominatorZero => ~entropy.corr.nan /\ entropy.corr.abs = 0
    /\ (Len(data) >= 2 /\ AllEqual(data)) => ~entropy.corr.nan /\ entropy.corr.abs = 0
    /\ entropy.corr.denZero <=> DenominatorZero
\* 0, 0, 0, 255: the first three bytes are equal, so that varX is zero
C25_Witness ==
  /\ Analyzed /\ data = <<0, 0, 0, 255>>
  /\ DenominatorZero /\ ~AllEqual(data)
  /\ ~entropy.corr.nan /\ entropy.corr.abs = 0


\* C26: while scanning runs, every 3-second tick computes the field from a
\* fresh sample, the current time and the birth date configured at that
\* moment, also after the birth date was saved or cleared while scanning; and
\* no tick comes after stopScan.  A step in which the clock moves is a tick.
C26_TicksUseConfiguredBirthDate ==
  [][now' # now =>
       /\ scan.scanning
       /\ entropy' = fullEntropyAnalysis(data')
       /\ field' = calculateField(entropy', birthDate, now')]_vars


\* C27: once customer.subscription.deleted is processed (tier free, status
\* cancelled), no later webhook event in any order makes the profile
\* premium and active again until a checkout.session.completed for the user
\* is processed.
C27_DeletedStaysFreeUntilCheckout ==
  /\ ended => ~IsPremium(profile)
  /\ (ended /\ lastEvent = "customer.subscription.deleted") =>
       /\ profile.subscription_tier = "free"
       /\ profile.subscription_status = "cancelled"


\* C28: from a new profile (streaks 0 and 0), after update_streak calls on any
\* days, streak_longest >= streak_current >= 0; a second call on the same day
\* changes nothing, a call on the day after the last one adds exactly 1 to
\* streak_current, and a call after a gap sets streak_current to 1 without
\* lowering streak_longest.  A step that leaves the day is a call.
C28_StreakCounts ==
  /\ [](profile.streak_longest >= profile.streak_current /\ profile.streak_current >= 0)
  /\ [][today' = today =>
          /\ profile.streak_last_date = today => profile' = profile
          /\ profile.streak_last_date = today - 1 =>
               profile'.streak_current = profile.streak_current + 1
          /\ profile.streak_last_date < today - 1 =>
               /\ profile'.streak_current = 1
               /\ profile'.streak_longest >= profile.streak_longest
          /\ profile'.streak_last_date = today]_vars
\* calls on three days running, a day without, and a call: 1 and 3
C28_Witness ==
  /\ today = 5 /\ profile.streak_last_date = 5
  /\ profile.streak_current = 1 /\ profile.streak_longest = 3

====
